---- MODULE Spec2Model ----
(***************************************************************************)
(* State-machine model of the AfterCoin engines (trading, alliance, dark   *)
(* market, social, whisper, events, reputation).                           *)
(*                                                                         *)
(* Amounts.  The source keeps AFC amounts as floats.  The model keeps them *)
(* as integers in hundredths of an AFC (10.0 AFC = 1000), and every        *)
(* round(x, n) of the source is a rounding to the nearest model unit       *)
(* (ties to even, as Python's round).  share_percent is kept in hundredths *)
(* of a percent (100 % = 10000).                                           *)
(*                                                                         *)
(* Persistence.  Every engine call opens its own session.  A SELECT or     *)
(* session.get returns the committed row at the moment of the await; the   *)
(* writes of a session become visible to the other sessions at its commit. *)
(* A Core statement update(...).values(col = col + d) adds d to the        *)
(* committed value; an ORM attribute assignment writes the value computed  *)
(* from the row the session read earlier.  The actions named after an      *)
(* engine method run the whole method without interleaving; the actions    *)
(* named <method>_<step> run one awaited statement each, for several tasks.*)
(***************************************************************************)
EXTENDS Integers, Sequences, FiniteSets, TLC

\* ───────────────────────── bounds of the model ─────────────────────────
NumAgents == 5
MaxTrades == 1
MaxTips == 1
MaxBounties == 1
MaxHits == 1
MaxAlliances == 1
MaxMemberRows == 3
MaxNow == 2
MaxPosts == 1
MaxBlackmails == 1
MaxTribunalVotes == 2
MaxEliminations == 2
MaxReputationLogs == 1
MaxRows == 2
MaxPositions == 4
MaxSettlerPositions == 2
MaxPrices == 2
MaxVolume == 200
NumTasks == 2

\* ───────────────────────── settings.py ─────────────────────────────────
STARTING_AFC == 1000
STARTING_REPUTATION == 50
TRADE_FEE == 3
REP_MAX == 100
REP_MIN == 0
REP_TIP == 1
REP_SCAM_CONFIRMED == -15
REP_HIT_TARGET == -20
REP_BETRAYAL == -25
ALLIANCE_FEE == 2
BETRAYAL_COUNTDOWN_HOURS == 2

\* settings.py: BETRAYAL_STEAL_PERCENT 0.80, as a percentage
BETRAYAL_STEAL_PERCENT == 80
DARK_MARKET_UNLOCK_HOUR == 8
VOTE_MANIP_UNLOCK_HOUR == 10
REP_UPVOTE == 1
REP_DOWNVOTE == -2
REP_BLACKMAIL_EXPOSED == -10
VOTE_MANIP_REP_PENALTY == -10
FAKE_UPVOTES_COST == 30
VOTE_MANIP_FINE == 150
MAX_POSTS_PER_HOUR == 10
SPAM_FINE == 50
ELIMINATION_HOURS == {6, 12, 18, 24}
\* LEVERAGE_FEE 0.05 AFC; LEVERAGE_MULTIPLIER 1.75, in hundredths
LEVERAGE_FEE == 5
LEVERAGE_MULTIPLIER == 175
MAX_LEVERAGE_POSITIONS == 3
LEVERAGE_UNLOCK_HOUR == 6

\* the price of one AFC at the start, in cents
STARTING_PRICE == 93217
\* the largest change of one tick or shock, in percent
MAX_PRICE_CHANGE_PERCENT == 5

\* EventsEngine.SCHEDULED_EVENTS: the type and the trigger hour of the rows
\* that initialize_events seeds
SCHEDULED_EVENTS ==
    <<<<"whale_alert", 3>>, <<"flash_crash", 7>>, <<"security_breach", 9>>>>

\* dark_market.py: HIT_CANCEL_PENALTY_RATE 0.10, as a percentage
HIT_CANCEL_PENALTY_RATE == 10

Agents == 1..NumAgents

\* settings.TOTAL_AGENTS, the number of agents the game is set up with
TOTAL_AGENTS == NumAgents
Tasks == 1..NumTasks

\* inputs drawn by the callers
TradeOffers == {<<1, 2, 200>>, <<1, 2, 960>>, <<2, 1, 200>>, <<1, 1, 200>>}
TipAmounts == {50}
BountyOffers == {<<1, 300>>}
HitOffers == {<<1, 2, 200>>}

\* round(n / d) to the nearest unit, ties to even, for n >= 0 and d > 0
RoundDiv(n, d) ==
    LET q == n \div d
        r == n % d
    IN IF 2 * r < d THEN q
       ELSE IF 2 * r > d THEN q + 1
       ELSE IF q % 2 = 0 THEN q ELSE q + 1

RECURSIVE SumOf(_, _)
SumOf(f, S) == IF S = {} THEN 0
               ELSE LET x == CHOOSE y \in S : TRUE IN f[x] + SumOf(f, S \ {x})

Max(a, b) == IF a >= b THEN a ELSE b
Min(a, b) == IF a <= b THEN a ELSE b
Abs(x) == IF x < 0 THEN -x ELSE x

VARIABLES
    afc_balance,        \* Agent.afc_balance
    reputation,         \* Agent.reputation
    is_eliminated,      \* Agent.is_eliminated
    total_trades,       \* Agent.total_trades
    current_hour,       \* GameState.current_hour
    is_trading_frozen,  \* GameState.is_trading_frozen
    trades,             \* rows of the trades table, by id
    num_tips,           \* number of rows of the tips table
    positions,          \* rows of the leverage_positions table, by id
    bounties,           \* rows of the bounties table, by id
    hits,               \* rows of the hit_contracts table, by id
    intel_purchases,    \* rows of the intel_purchases table
    alliances,          \* rows of the alliances table, by id
    members,            \* per alliance and agent: the active alliance_members row
    num_member_rows,    \* number of rows of the alliance_members table
    posts,              \* rows of the posts table, by id
    votes,              \* the real (not fake) rows of the votes table
    posts_this_hour,    \* Agent.posts_this_hour
    posts_hour_reset,   \* Agent.posts_hour_reset, in hours since the start
    blackmails,         \* rows of the blackmail_contracts table, by id
    tribunal_votes,     \* rows of the tribunal_votes table
    eliminations,       \* rows of the eliminations table
    reputation_log,     \* rows of the reputation_log table
    agents_remaining,   \* GameState.agents_remaining
    system_events,      \* rows of the system_events table, by id
    _price,              \* MarketEngine._price, in cents
    _buy_volume,         \* MarketEngine._buy_volume
    _sell_volume,        \* MarketEngine._sell_volume
    _frozen,      \* MarketEngine._frozen
    num_prices,         \* number of rows of the market_prices table
    _running,            \* GameOrchestrator._running
    _tasks,         \* GameOrchestrator._tasks, the names of the tasks it holds
    live_tasks,         \* the names of the tasks of the event loop not yet finished
    is_active,          \* GameState.is_active
    phase,              \* GameState.phase
    clock_expired,      \* whether datetime.now() has reached _game_ends_at
    now,                \* datetime.utcnow(), in hours since the start
    pc,                 \* per task: the awaited statement it is suspended at
    loc,                \* per task: the rows its session has read
    result              \* the (success, message, data) of the last finished call

vars == <<afc_balance, reputation, is_eliminated, total_trades,
          current_hour, is_trading_frozen, trades, num_tips, positions,
          bounties, hits, intel_purchases,
          alliances, members, num_member_rows, posts, votes, posts_this_hour,
          posts_hour_reset, blackmails, tribunal_votes, eliminations,
          reputation_log, agents_remaining, system_events, _price, _buy_volume, _sell_volume,
          _frozen, num_prices, _running, _tasks, live_tasks, is_active,
          phase, clock_expired, now, pc, loc, result>>

agentVars == <<afc_balance, reputation, is_eliminated, total_trades>>
gameVars == <<current_hour, is_trading_frozen>>
tradeVars == <<trades, num_tips>>
leverageVars == <<positions>>
darkVars == <<bounties, hits, intel_purchases>>
allianceVars == <<alliances, members, num_member_rows>>
socialVars == <<posts, votes, posts_this_hour, posts_hour_reset>>
eventVars == <<blackmails, tribunal_votes, eliminations, reputation_log, agents_remaining>>
marketVars == <<_price, _buy_volume, _sell_volume, _frozen, num_prices>>
orchestratorVars == <<_running, _tasks, live_tasks, is_active, phase, clock_expired>>
runVars == <<system_events, marketVars, orchestratorVars>>
taskVars == <<pc, loc>>

\* what the trading calls on trades and tips never write
frameTrading == <<gameVars, leverageVars, darkVars, allianceVars, socialVars, eventVars, now, runVars>>

\* a column that is NULL
None == -1

Res(op, ok, id, agent) == [op |-> op, ok |-> ok, id |-> id, agent |-> agent]

NoLoc == [op |-> "-", id |-> 0, agent |-> 0, bal |-> 0, other_bal |-> 0, rep |-> 0,
          treasury |-> 0, share |-> 0, now |-> 0, price |-> 0, pending |-> <<>>,
          selected |-> {}]

\* the state after construction, with the price MarketEngine starts from
InitAt(start_price) ==
    /\ afc_balance = [a \in Agents |-> STARTING_AFC]
    /\ reputation = [a \in Agents |-> STARTING_REPUTATION]
    /\ is_eliminated = [a \in Agents |-> FALSE]
    /\ total_trades = [a \in Agents |-> 0]
    /\ current_hour = 0
    /\ is_trading_frozen = FALSE
    /\ trades = <<>>
    /\ num_tips = 0
    /\ positions = <<>>
    /\ bounties = <<>>
    /\ hits = <<>>
    /\ intel_purchases = <<>>
    /\ alliances = <<>>
    /\ members = <<>>
    /\ num_member_rows = 0
    /\ posts = <<>>
    /\ votes = {}
    /\ posts_this_hour = [a \in Agents |-> 0]
    /\ posts_hour_reset = [a \in Agents |-> None]
    /\ blackmails = <<>>
    /\ tribunal_votes = {}
    /\ eliminations = {}
    /\ reputation_log = <<>>
    /\ agents_remaining = TOTAL_AGENTS
    /\ system_events = <<>>
    /\ _price = start_price
    /\ _buy_volume = 0
    /\ _sell_volume = 0
    /\ _frozen = FALSE
    /\ num_prices = 0
    /\ _running = FALSE
    /\ _tasks = {}
    /\ live_tasks = {}
    /\ is_active = FALSE
    /\ phase = "pre_game"
    /\ clock_expired = FALSE
    /\ now = 0
    /\ pc = [t \in Tasks |-> "idle"]
    /\ loc = [t \in Tasks |-> NoLoc]
    /\ result = Res("-", FALSE, 0, 0)

Init == InitAt(STARTING_PRICE)

\* ───────────────────────── TradingEngine: P2P trades ────────────────────

TradeIds == 1..Len(trades)

\* variant that does not look at the receiver's elimination flag
create_trade_offer_ok_any_receiver(sender_id, receiver_id, afc_amount) ==
    /\ sender_id # receiver_id
    /\ afc_amount > 0
    /\ ~is_eliminated[sender_id]
    /\ afc_balance[sender_id] >= afc_amount + TRADE_FEE
    /\ ~is_trading_frozen

create_trade_offer_ok(sender_id, receiver_id, afc_amount) ==
    /\ sender_id # receiver_id
    /\ afc_amount > 0
    /\ ~is_eliminated[sender_id]
    /\ ~is_eliminated[receiver_id]
    /\ afc_balance[sender_id] >= afc_amount + TRADE_FEE
    /\ ~is_trading_frozen

create_trade_offer(sender_id, receiver_id, afc_amount) ==
    /\ Len(trades) < MaxTrades
    /\ IF create_trade_offer_ok(sender_id, receiver_id, afc_amount)
       THEN /\ trades' = Append(trades, [sender_id |-> sender_id,
                                         receiver_id |-> receiver_id,
                                         afc_amount |-> afc_amount,
                                         fee |-> TRADE_FEE,
                                         status |-> "pending"])
            /\ result' = Res("create_trade_offer", TRUE, Len(trades) + 1, sender_id)
       ELSE /\ UNCHANGED trades
            /\ result' = Res("create_trade_offer", FALSE, 0, 0)
    /\ UNCHANGED <<agentVars, frameTrading, num_tips, taskVars>>

\* variant that forgets the fee
accept_total_cost_nofee(trade) == trade.afc_amount
accept_total_cost(trade) == trade.afc_amount + trade.fee

\* variant that skips the balance check
sender_can_pay_unchecked(sender_balance, trade) == TRUE
sender_can_pay(sender_balance, trade) == ~(sender_balance < accept_total_cost(trade))

accept_trade_ok(trade_id, agent_id) ==
    LET trade == trades[trade_id] IN
    /\ trade.status = "pending"
    /\ trade.receiver_id = agent_id
    /\ ~is_eliminated[trade.sender_id]
    /\ sender_can_pay(afc_balance[trade.sender_id], trade)

\* the two relative UPDATEs and the status write, made visible by the commit
accept_trade_write(trade_id) ==
    LET trade == trades[trade_id]
        total_cost == accept_total_cost(trade)
        debited == [afc_balance EXCEPT ![trade.sender_id] = @ - total_cost]
        counted == [total_trades EXCEPT ![trade.sender_id] = @ + 1]
    IN
    /\ afc_balance' = [debited EXCEPT ![trade.receiver_id] = @ + trade.afc_amount]
    /\ total_trades' = [counted EXCEPT ![trade.receiver_id] = @ + 1]
    /\ trades' = [trades EXCEPT ![trade_id].status = "completed"]

accept_trade(trade_id, agent_id) ==
    IF accept_trade_ok(trade_id, agent_id)
    THEN /\ accept_trade_write(trade_id)
         /\ result' = Res("accept_trade", TRUE, trade_id, agent_id)
         /\ UNCHANGED <<reputation, is_eliminated, frameTrading, num_tips, taskVars>>
    ELSE /\ result' = Res("accept_trade", FALSE, trade_id, 0)
         /\ UNCHANGED <<agentVars, frameTrading, trades, num_tips, taskVars>>

reject_trade(trade_id, agent_id) ==
    LET trade == trades[trade_id] IN
    IF trade.status = "pending" /\ trade.receiver_id = agent_id
    THEN /\ trades' = [trades EXCEPT ![trade_id].status = "rejected"]
         /\ result' = Res("reject_trade", TRUE, trade_id, agent_id)
         /\ UNCHANGED <<agentVars, frameTrading, num_tips, taskVars>>
    ELSE /\ result' = Res("reject_trade", FALSE, trade_id, 0)
         /\ UNCHANGED <<agentVars, frameTrading, trades, num_tips, taskVars>>

execute_scam(trade_id) ==
    LET trade == trades[trade_id] IN
    IF trade.status = "pending"
    THEN /\ trades' = [trades EXCEPT ![trade_id].status = "scam"]
         /\ reputation' = [reputation EXCEPT ![trade.sender_id] =
                Max(REP_MIN, @ + REP_SCAM_CONFIRMED)]
         /\ result' = Res("execute_scam", TRUE, trade_id, trade.sender_id)
         /\ UNCHANGED <<afc_balance, is_eliminated, total_trades,
                        frameTrading, num_tips, taskVars>>
    ELSE /\ result' = Res("execute_scam", FALSE, trade_id, 0)
         /\ UNCHANGED <<agentVars, frameTrading, trades, num_tips, taskVars>>

\* ───────────────────────── TradingEngine: tipping ───────────────────────

send_tip_ok(sender_id, receiver_id, amount) ==
    /\ sender_id # receiver_id
    /\ amount >= 10 /\ amount <= 50
    /\ ~is_eliminated[sender_id]
    /\ ~is_eliminated[receiver_id]
    /\ afc_balance[sender_id] >= amount

send_tip(sender_id, receiver_id, amount) ==
    /\ num_tips < MaxTips
    /\ IF send_tip_ok(sender_id, receiver_id, amount)
       THEN /\ afc_balance' = [afc_balance EXCEPT ![sender_id] = @ - amount,
                                                  ![receiver_id] = @ + amount]
            /\ reputation' = [reputation EXCEPT
                   ![sender_id] = Min(REP_MAX, @ + REP_TIP),
                   ![receiver_id] = Min(REP_MAX, @ + REP_TIP)]
            /\ num_tips' = num_tips + 1
            /\ result' = Res("send_tip", TRUE, receiver_id, sender_id)
            /\ UNCHANGED <<is_eliminated, total_trades>>
       ELSE /\ result' = Res("send_tip", FALSE, 0, 0)
            /\ UNCHANGED <<agentVars, num_tips>>
    /\ UNCHANGED <<frameTrading, trades, taskVars>>

\* ───────────────────────── specification of sequential trading ──────────

NextTrade ==
    \/ \E o \in TradeOffers : create_trade_offer(o[1], o[2], o[3])
    \/ \E id \in TradeIds, a \in Agents : accept_trade(id, a)
    \/ \E id \in TradeIds, a \in Agents : reject_trade(id, a)
    \/ \E id \in TradeIds : execute_scam(id)
    \/ \E s, r \in Agents, amt \in TipAmounts : send_tip(s, r, amt)

SpecTrade == Init /\ [][NextTrade]_vars

\* ───────────────────────── interleaved calls on one trade ───────────────
\* Each call runs in its own task and session; one action per awaited
\* statement.  The UPDATEs of a call and its commit are one step: the first
\* UPDATE opens the write transaction and the commit closes it.

Goto(t, label, l) ==
    /\ pc' = [pc EXCEPT ![t] = label]
    /\ loc' = [loc EXCEPT ![t] = l]

Done(t) ==
    /\ pc' = [pc EXCEPT ![t] = "idle"]
    /\ loc' = [loc EXCEPT ![t] = NoLoc]

\* no call of a decision loop is in flight
target_idle == \A t \in Tasks : pc[t] = "idle"

accept_trade_read_trade(t, trade_id, agent_id) ==
    /\ pc[t] = "idle"
    /\ IF trades[trade_id].status = "pending" /\ trades[trade_id].receiver_id = agent_id
       THEN /\ Goto(t, "accept_trade_read_sender",
                    [NoLoc EXCEPT !.op = "accept_trade", !.id = trade_id, !.agent = agent_id])
            /\ UNCHANGED result
       ELSE /\ result' = Res("accept_trade", FALSE, trade_id, 0)
            /\ UNCHANGED taskVars
    /\ UNCHANGED <<agentVars, frameTrading, trades, num_tips>>

accept_trade_read_sender(t) ==
    /\ pc[t] = "accept_trade_read_sender"
    /\ LET trade == trades[loc[t].id] IN
       IF ~is_eliminated[trade.sender_id]
            /\ sender_can_pay(afc_balance[trade.sender_id], trade)
       THEN /\ Goto(t, "accept_trade_commit", loc[t])
            /\ UNCHANGED result
       ELSE /\ Done(t)
            /\ result' = Res("accept_trade", FALSE, loc[t].id, 0)
    /\ UNCHANGED <<agentVars, frameTrading, trades, num_tips>>

accept_trade_commit(t) ==
    /\ pc[t] = "accept_trade_commit"
    /\ accept_trade_write(loc[t].id)
    /\ result' = Res("accept_trade", TRUE, loc[t].id, loc[t].agent)
    /\ Done(t)
    /\ UNCHANGED <<reputation, is_eliminated, frameTrading, num_tips>>

reject_trade_read_trade(t, trade_id, agent_id) ==
    /\ pc[t] = "idle"
    /\ IF trades[trade_id].status = "pending" /\ trades[trade_id].receiver_id = agent_id
       THEN /\ Goto(t, "reject_trade_commit",
                    [NoLoc EXCEPT !.op = "reject_trade", !.id = trade_id, !.agent = agent_id])
            /\ UNCHANGED result
       ELSE /\ result' = Res("reject_trade", FALSE, trade_id, 0)
            /\ UNCHANGED taskVars
    /\ UNCHANGED <<agentVars, frameTrading, trades, num_tips>>

reject_trade_commit(t) ==
    /\ pc[t] = "reject_trade_commit"
    /\ trades' = [trades EXCEPT ![loc[t].id].status = "rejected"]
    /\ result' = Res("reject_trade", TRUE, loc[t].id, loc[t].agent)
    /\ Done(t)
    /\ UNCHANGED <<agentVars, frameTrading, num_tips>>

execute_scam_read_trade(t, trade_id) ==
    /\ pc[t] = "idle"
    /\ IF trades[trade_id].status = "pending"
       THEN /\ Goto(t, "execute_scam_commit",
                    [NoLoc EXCEPT !.op = "execute_scam", !.id = trade_id])
            /\ UNCHANGED result
       ELSE /\ result' = Res("execute_scam", FALSE, trade_id, 0)
            /\ UNCHANGED taskVars
    /\ UNCHANGED <<agentVars, frameTrading, trades, num_tips>>

\* the autoflush of trade.status before the SELECT of the sender opens the
\* write transaction, so the sender is read and written in the same step
execute_scam_commit(t) ==
    /\ pc[t] = "execute_scam_commit"
    /\ trades' = [trades EXCEPT ![loc[t].id].status = "scam"]
    /\ reputation' = [reputation EXCEPT ![trades[loc[t].id].sender_id] =
           Max(REP_MIN, @ + REP_SCAM_CONFIRMED)]
    /\ result' = Res("execute_scam", TRUE, loc[t].id, trades[loc[t].id].sender_id)
    /\ Done(t)
    /\ UNCHANGED <<afc_balance, is_eliminated, total_trades, frameTrading, num_tips>>

NextTradeRace ==
    \/ \E o \in TradeOffers : create_trade_offer(o[1], o[2], o[3])
    \/ \E t \in Tasks, id \in TradeIds, a \in Agents : accept_trade_read_trade(t, id, a)
    \/ \E t \in Tasks : accept_trade_read_sender(t)
    \/ \E t \in Tasks : accept_trade_commit(t)
    \/ \E t \in Tasks, id \in TradeIds, a \in Agents : reject_trade_read_trade(t, id, a)
    \/ \E t \in Tasks : reject_trade_commit(t)
    \/ \E t \in Tasks, id \in TradeIds : execute_scam_read_trade(t, id)
    \/ \E t \in Tasks : execute_scam_commit(t)

SpecTradeRace == Init /\ [][NextTradeRace]_vars

\* ───────────────────────── EventsEngine: the game hour ──────────────────

\* the callers pass the hours of the game in increasing order
update_game_hour(hour) ==
    /\ hour > current_hour
    /\ current_hour' = hour
    /\ result' = Res("update_game_hour", TRUE, hour, 0)
    /\ UNCHANGED <<agentVars, is_trading_frozen, tradeVars, leverageVars, darkVars,
                   allianceVars, socialVars, eventVars, runVars, now, taskVars>>

\* ───────────────────────── TradingEngine: bounties ──────────────────────

BountyIds == 1..Len(bounties)

\* what the calls on bounties and hit contracts never write
frameDark == <<gameVars, leverageVars, tradeVars, allianceVars, socialVars, eventVars, now, runVars,
               intel_purchases>>

create_bounty_ok(poster_id, reward_afc) ==
    /\ reward_afc > 0
    /\ ~is_eliminated[poster_id]
    /\ afc_balance[poster_id] >= reward_afc

create_bounty(poster_id, reward_afc) ==
    /\ Len(bounties) < MaxBounties
    /\ IF create_bounty_ok(poster_id, reward_afc)
       THEN /\ afc_balance' = [afc_balance EXCEPT ![poster_id] = @ - reward_afc]
            /\ bounties' = Append(bounties, [poster_id |-> poster_id,
                                             claimer_id |-> 0,
                                             reward_afc |-> reward_afc,
                                             status |-> "open"])
            /\ result' = Res("create_bounty", TRUE, Len(bounties) + 1, poster_id)
       ELSE /\ result' = Res("create_bounty", FALSE, 0, 0)
            /\ UNCHANGED <<afc_balance, bounties>>
    /\ UNCHANGED <<reputation, is_eliminated, total_trades, hits, frameDark, taskVars>>

claim_bounty_ok(bounty_id, claimer_id) ==
    /\ bounties[bounty_id].status = "open"
    /\ bounties[bounty_id].poster_id # claimer_id
    /\ ~is_eliminated[claimer_id]

\* the relative UPDATE of the claimer and the row of the bounty
claim_bounty_write(bounty_id, claimer_id) ==
    /\ afc_balance' = [afc_balance EXCEPT ![claimer_id] = @ + bounties[bounty_id].reward_afc]
    /\ bounties' = [bounties EXCEPT ![bounty_id].claimer_id = claimer_id,
                                    ![bounty_id].status = "completed"]

claim_bounty(bounty_id, claimer_id) ==
    /\ IF claim_bounty_ok(bounty_id, claimer_id)
       THEN /\ claim_bounty_write(bounty_id, claimer_id)
            /\ result' = Res("claim_bounty", TRUE, bounty_id, claimer_id)
       ELSE /\ result' = Res("claim_bounty", FALSE, bounty_id, 0)
            /\ UNCHANGED <<afc_balance, bounties>>
    /\ UNCHANGED <<reputation, is_eliminated, total_trades, hits, frameDark, taskVars>>

\* ───────────────────────── DarkMarketEngine: hit contracts ─────────────

HitIds == 1..Len(hits)

_check_dark_market_unlocked == ~(current_hour < DARK_MARKET_UNLOCK_HOUR)

clamp_reputation(value) == Max(REP_MIN, Min(REP_MAX, value))

create_hit_contract_ok(poster_id, target_id, reward_afc) ==
    /\ _check_dark_market_unlocked
    /\ poster_id # target_id
    /\ reward_afc > 0
    /\ ~is_eliminated[poster_id]
    /\ afc_balance[poster_id] >= reward_afc
    /\ ~is_eliminated[target_id]

create_hit_contract(poster_id, target_id, reward_afc) ==
    /\ Len(hits) < MaxHits
    /\ IF create_hit_contract_ok(poster_id, target_id, reward_afc)
       THEN /\ afc_balance' = [afc_balance EXCEPT ![poster_id] = @ - reward_afc]
            /\ hits' = Append(hits, [poster_id |-> poster_id,
                                     target_id |-> target_id,
                                     claimer_id |-> 0,
                                     reward_afc |-> reward_afc,
                                     status |-> "open"])
            /\ result' = Res("create_hit_contract", TRUE, Len(hits) + 1, poster_id)
       ELSE /\ result' = Res("create_hit_contract", FALSE, 0, 0)
            /\ UNCHANGED <<afc_balance, hits>>
    /\ UNCHANGED <<reputation, is_eliminated, total_trades, bounties, frameDark, taskVars>>

claim_hit_contract_ok(contract_id, claimer_id) ==
    /\ hits[contract_id].status = "open"
    /\ hits[contract_id].poster_id # claimer_id
    /\ hits[contract_id].target_id # claimer_id
    /\ ~is_eliminated[claimer_id]

claim_hit_contract(contract_id, claimer_id) ==
    /\ IF claim_hit_contract_ok(contract_id, claimer_id)
       THEN /\ hits' = [hits EXCEPT ![contract_id].claimer_id = claimer_id,
                                    ![contract_id].status = "claimed"]
            /\ result' = Res("claim_hit_contract", TRUE, contract_id, claimer_id)
       ELSE /\ result' = Res("claim_hit_contract", FALSE, contract_id, 0)
            /\ UNCHANGED hits
    /\ UNCHANGED <<agentVars, bounties, frameDark, taskVars>>

\* the flush at the commit: the claimer's balance and the target's reputation
\* are written as computed from the rows the session read
complete_hit_contract_write(contract_id, claimer_id, claimer_balance, target_reputation) ==
    LET contract == hits[contract_id] IN
    /\ afc_balance' = [afc_balance EXCEPT
           ![claimer_id] = claimer_balance + contract.reward_afc]
    /\ reputation' = [reputation EXCEPT
           ![contract.target_id] = clamp_reputation(target_reputation + REP_HIT_TARGET)]
    /\ hits' = [hits EXCEPT ![contract_id].status = "completed"]

complete_hit_contract(contract_id) ==
    LET contract == hits[contract_id] IN
    /\ IF contract.status = "claimed" /\ contract.claimer_id # 0
       THEN /\ complete_hit_contract_write(contract_id, contract.claimer_id,
                   afc_balance[contract.claimer_id], reputation[contract.target_id])
            /\ result' = Res("complete_hit_contract", TRUE, contract_id, contract.claimer_id)
       ELSE /\ result' = Res("complete_hit_contract", FALSE, contract_id, 0)
            /\ UNCHANGED <<afc_balance, reputation, hits>>
    /\ UNCHANGED <<is_eliminated, total_trades, bounties, frameDark, taskVars>>

hit_cancel_refund(reward_afc) == reward_afc - (reward_afc * HIT_CANCEL_PENALTY_RATE) \div 100

cancel_hit_contract_write(contract_id, poster_balance) ==
    LET contract == hits[contract_id] IN
    /\ afc_balance' = [afc_balance EXCEPT
           ![contract.poster_id] = poster_balance + hit_cancel_refund(contract.reward_afc)]
    /\ hits' = [hits EXCEPT ![contract_id].status = "cancelled"]

cancel_hit_contract(contract_id, poster_id) ==
    LET contract == hits[contract_id] IN
    /\ IF contract.poster_id = poster_id /\ contract.status \in {"open", "claimed"}
       THEN /\ cancel_hit_contract_write(contract_id, afc_balance[poster_id])
            /\ result' = Res("cancel_hit_contract", TRUE, contract_id, poster_id)
       ELSE /\ result' = Res("cancel_hit_contract", FALSE, contract_id, 0)
            /\ UNCHANGED <<afc_balance, hits>>
    /\ UNCHANGED <<reputation, is_eliminated, total_trades, bounties, frameDark, taskVars>>

\* ───────────────────────── interleaved calls on escrowed rewards ────────

claim_bounty_read_bounty(t, bounty_id, claimer_id) ==
    /\ pc[t] = "idle"
    /\ IF bounties[bounty_id].status = "open" /\ bounties[bounty_id].poster_id # claimer_id
       THEN /\ Goto(t, "claim_bounty_read_claimer",
                    [NoLoc EXCEPT !.op = "claim_bounty", !.id = bounty_id, !.agent = claimer_id])
            /\ UNCHANGED result
       ELSE /\ result' = Res("claim_bounty", FALSE, bounty_id, 0)
            /\ UNCHANGED taskVars
    /\ UNCHANGED <<agentVars, darkVars, frameDark>>

claim_bounty_read_claimer(t) ==
    /\ pc[t] = "claim_bounty_read_claimer"
    /\ IF ~is_eliminated[loc[t].agent]
       THEN /\ Goto(t, "claim_bounty_commit", loc[t])
            /\ UNCHANGED result
       ELSE /\ Done(t)
            /\ result' = Res("claim_bounty", FALSE, loc[t].id, 0)
    /\ UNCHANGED <<agentVars, darkVars, frameDark>>

claim_bounty_commit(t) ==
    /\ pc[t] = "claim_bounty_commit"
    /\ claim_bounty_write(loc[t].id, loc[t].agent)
    /\ result' = Res("claim_bounty", TRUE, loc[t].id, loc[t].agent)
    /\ Done(t)
    /\ UNCHANGED <<reputation, is_eliminated, total_trades, hits, frameDark>>

claim_hit_contract_read_contract(t, contract_id, claimer_id) ==
    /\ pc[t] = "idle"
    /\ IF /\ hits[contract_id].status = "open"
          /\ hits[contract_id].poster_id # claimer_id
          /\ hits[contract_id].target_id # claimer_id
       THEN /\ Goto(t, "claim_hit_contract_read_claimer",
                    [NoLoc EXCEPT !.op = "claim_hit_contract", !.id = contract_id,
                                  !.agent = claimer_id])
            /\ UNCHANGED result
       ELSE /\ result' = Res("claim_hit_contract", FALSE, contract_id, 0)
            /\ UNCHANGED taskVars
    /\ UNCHANGED <<agentVars, darkVars, frameDark>>

claim_hit_contract_read_claimer(t) ==
    /\ pc[t] = "claim_hit_contract_read_claimer"
    /\ IF ~is_eliminated[loc[t].agent]
       THEN /\ Goto(t, "claim_hit_contract_commit", loc[t])
            /\ UNCHANGED result
       ELSE /\ Done(t)
            /\ result' = Res("claim_hit_contract", FALSE, loc[t].id, 0)
    /\ UNCHANGED <<agentVars, darkVars, frameDark>>

claim_hit_contract_commit(t) ==
    /\ pc[t] = "claim_hit_contract_commit"
    /\ hits' = [hits EXCEPT ![loc[t].id].claimer_id = loc[t].agent,
                            ![loc[t].id].status = "claimed"]
    /\ result' = Res("claim_hit_contract", TRUE, loc[t].id, loc[t].agent)
    /\ Done(t)
    /\ UNCHANGED <<agentVars, bounties, frameDark>>

complete_hit_contract_read_contract(t, contract_id) ==
    /\ pc[t] = "idle"
    /\ IF hits[contract_id].status = "claimed" /\ hits[contract_id].claimer_id # 0
       THEN /\ Goto(t, "complete_hit_contract_read_claimer",
                    [NoLoc EXCEPT !.op = "complete_hit_contract", !.id = contract_id,
                                  !.agent = hits[contract_id].claimer_id])
            /\ UNCHANGED result
       ELSE /\ result' = Res("complete_hit_contract", FALSE, contract_id, 0)
            /\ UNCHANGED taskVars
    /\ UNCHANGED <<agentVars, darkVars, frameDark>>

complete_hit_contract_read_claimer(t) ==
    /\ pc[t] = "complete_hit_contract_read_claimer"
    /\ Goto(t, "complete_hit_contract_read_target",
            [loc[t] EXCEPT !.bal = afc_balance[loc[t].agent]])
    /\ UNCHANGED <<agentVars, darkVars, frameDark, result>>

complete_hit_contract_read_target(t) ==
    /\ pc[t] = "complete_hit_contract_read_target"
    /\ Goto(t, "complete_hit_contract_commit",
            [loc[t] EXCEPT !.rep = reputation[hits[loc[t].id].target_id]])
    /\ UNCHANGED <<agentVars, darkVars, frameDark, result>>

complete_hit_contract_commit(t) ==
    /\ pc[t] = "complete_hit_contract_commit"
    /\ complete_hit_contract_write(loc[t].id, loc[t].agent, loc[t].bal, loc[t].rep)
    /\ result' = Res("complete_hit_contract", TRUE, loc[t].id, loc[t].agent)
    /\ Done(t)
    /\ UNCHANGED <<is_eliminated, total_trades, bounties, frameDark>>

cancel_hit_contract_read_contract(t, contract_id, poster_id) ==
    /\ pc[t] = "idle"
    /\ IF /\ hits[contract_id].poster_id = poster_id
          /\ hits[contract_id].status \in {"open", "claimed"}
       THEN /\ Goto(t, "cancel_hit_contract_read_poster",
                    [NoLoc EXCEPT !.op = "cancel_hit_contract", !.id = contract_id,
                                  !.agent = poster_id])
            /\ UNCHANGED result
       ELSE /\ result' = Res("cancel_hit_contract", FALSE, contract_id, 0)
            /\ UNCHANGED taskVars
    /\ UNCHANGED <<agentVars, darkVars, frameDark>>

cancel_hit_contract_read_poster(t) ==
    /\ pc[t] = "cancel_hit_contract_read_poster"
    /\ Goto(t, "cancel_hit_contract_commit",
            [loc[t] EXCEPT !.bal = afc_balance[loc[t].agent]])
    /\ UNCHANGED <<agentVars, darkVars, frameDark, result>>

cancel_hit_contract_commit(t) ==
    /\ pc[t] = "cancel_hit_contract_commit"
    /\ cancel_hit_contract_write(loc[t].id, loc[t].bal)
    /\ result' = Res("cancel_hit_contract", TRUE, loc[t].id, loc[t].agent)
    /\ Done(t)
    /\ UNCHANGED <<reputation, is_eliminated, total_trades, bounties, frameDark>>

NextEscrowRace ==
    \/ update_game_hour(DARK_MARKET_UNLOCK_HOUR)
    \/ \E o \in BountyOffers : create_bounty(o[1], o[2])
    \/ \E t \in Tasks, id \in BountyIds, a \in Agents : claim_bounty_read_bounty(t, id, a)
    \/ \E t \in Tasks : claim_bounty_read_claimer(t)
    \/ \E t \in Tasks : claim_bounty_commit(t)
    \/ \E o \in HitOffers : create_hit_contract(o[1], o[2], o[3])
    \/ \E t \in Tasks, id \in HitIds, a \in Agents : claim_hit_contract_read_contract(t, id, a)
    \/ \E t \in Tasks : claim_hit_contract_read_claimer(t)
    \/ \E t \in Tasks : claim_hit_contract_commit(t)
    \/ \E t \in Tasks, id \in HitIds : complete_hit_contract_read_contract(t, id)
    \/ \E t \in Tasks : complete_hit_contract_read_claimer(t)
    \/ \E t \in Tasks : complete_hit_contract_read_target(t)
    \/ \E t \in Tasks : complete_hit_contract_commit(t)
    \/ \E t \in Tasks, id \in HitIds, a \in Agents : cancel_hit_contract_read_contract(t, id, a)
    \/ \E t \in Tasks : cancel_hit_contract_read_poster(t)
    \/ \E t \in Tasks : cancel_hit_contract_commit(t)

SpecEscrowRace == Init /\ [][NextEscrowRace]_vars

\* ───────────────────────── hit contracts claimed from two agent loops ───
\* claim_hit_contract is called from the decision loops, one task per agent;
\* complete_hit_contract and cancel_hit_contract run as single calls.

\* the decision loop of an agent makes one call at a time
loop_idle(agent_id) == \A t \in Tasks : loc[t].agent # agent_id

NextHitRace ==
    \/ update_game_hour(DARK_MARKET_UNLOCK_HOUR)
    \/ \E o \in HitOffers : create_hit_contract(o[1], o[2], o[3])
    \/ \E t \in Tasks, id \in HitIds, a \in Agents :
          loop_idle(a) /\ claim_hit_contract_read_contract(t, id, a)
    \/ \E t \in Tasks : claim_hit_contract_read_claimer(t)
    \/ \E t \in Tasks : claim_hit_contract_commit(t)
    \/ \E id \in HitIds : target_idle /\ complete_hit_contract(id)
    \/ \E id \in HitIds, a \in Agents : target_idle /\ cancel_hit_contract(id, a)

SpecHitRace == Init /\ [][NextHitRace]_vars

\* ───────────────────────── AllianceEngine ────────────────────────────────

NoMember == [is_active |-> FALSE, contribution |-> 0, share_percent |-> 0,
             defection_initiated_at |-> None]

AllianceIds == 1..Len(alliances)

\* what the alliance calls never write
frameAlliance == <<gameVars, leverageVars, tradeVars, darkVars, socialVars, eventVars, runVars>>

\* the clock of datetime.utcnow()
Tick ==
    /\ now < MaxNow
    /\ now' = now + 1
    /\ UNCHANGED <<agentVars, allianceVars, frameAlliance, taskVars, result>>

_get_active_alliance(alliance_id) == alliances[alliance_id].status = "active"

_get_active_membership(alliance_id, agent_id) == members[alliance_id][agent_id].is_active

_get_all_active_members(rows) == {a \in Agents : rows[a].is_active}

\* the share_percent of every active row, from the contributions
_recalculate_shares(rows) ==
    LET active == _get_all_active_members(rows)
        total_contribution == SumOf([a \in Agents |-> rows[a].contribution], active)
    IN [a \in Agents |->
          IF a \notin active THEN rows[a]
          ELSE IF total_contribution > 0
          THEN [rows[a] EXCEPT !.share_percent =
                   RoundDiv(rows[a].contribution * 10000, total_contribution)]
          ELSE [rows[a] EXCEPT !.share_percent = RoundDiv(10000, Cardinality(active))]]

create_alliance(founder_id) ==
    /\ Len(alliances) < MaxAlliances
    /\ IF ~is_eliminated[founder_id]
       THEN /\ alliances' = Append(alliances, [founder_id |-> founder_id, treasury |-> 0,
                                               status |-> "active", betrayed_by |-> 0])
            /\ members' = Append(members, [a \in Agents |->
                   IF a = founder_id THEN [NoMember EXCEPT !.is_active = TRUE]
                   ELSE NoMember])
            /\ num_member_rows' = num_member_rows + 1
            /\ result' = Res("create_alliance", TRUE, Len(alliances) + 1, founder_id)
       ELSE /\ result' = Res("create_alliance", FALSE, 0, 0)
            /\ UNCHANGED allianceVars
    /\ UNCHANGED <<agentVars, frameAlliance, now, taskVars>>

join_alliance_ok(alliance_id, agent_id) ==
    /\ _get_active_alliance(alliance_id)
    /\ ~is_eliminated[agent_id]
    /\ ~_get_active_membership(alliance_id, agent_id)

\* the new row; the shares of the alliance are not recomputed
join_alliance_rows(rows, agent_id) ==
    [rows EXCEPT ![agent_id] = [NoMember EXCEPT !.is_active = TRUE]]

join_alliance(alliance_id, agent_id) ==
    /\ num_member_rows < MaxMemberRows
    /\ IF join_alliance_ok(alliance_id, agent_id)
       THEN /\ members' = [members EXCEPT ![alliance_id] = join_alliance_rows(@, agent_id)]
            /\ num_member_rows' = num_member_rows + 1
            /\ result' = Res("join_alliance", TRUE, alliance_id, agent_id)
       ELSE /\ result' = Res("join_alliance", FALSE, alliance_id, 0)
            /\ UNCHANGED <<members, num_member_rows>>
    /\ UNCHANGED <<agentVars, alliances, frameAlliance, now, taskVars>>

leave_alliance_ok(alliance_id, agent_id) ==
    /\ _get_active_alliance(alliance_id)
    /\ _get_active_membership(alliance_id, agent_id)
    /\ members[alliance_id][agent_id].defection_initiated_at = None

leave_alliance(alliance_id, agent_id) ==
    LET alliance == alliances[alliance_id]
        member == members[alliance_id][agent_id]
        share_amount == IF alliance.treasury > 0 /\ member.share_percent > 0
                        THEN RoundDiv(alliance.treasury * member.share_percent, 10000)
                        ELSE 0
    IN
    /\ IF leave_alliance_ok(alliance_id, agent_id)
       THEN /\ alliances' = [alliances EXCEPT ![alliance_id].treasury = @ - share_amount]
            /\ afc_balance' = [afc_balance EXCEPT ![agent_id] = @ + share_amount]
            /\ members' = [members EXCEPT ![alliance_id] =
                   _recalculate_shares([@ EXCEPT ![agent_id] = NoMember])]
            /\ result' = Res("leave_alliance", TRUE, alliance_id, agent_id)
       ELSE /\ result' = Res("leave_alliance", FALSE, alliance_id, 0)
            /\ UNCHANGED <<afc_balance, alliances, members>>
    /\ UNCHANGED <<reputation, is_eliminated, total_trades, num_member_rows,
                   frameAlliance, now, taskVars>>

contribute_to_treasury_ok(alliance_id, agent_id, amount) ==
    /\ amount > ALLIANCE_FEE
    /\ _get_active_alliance(alliance_id)
    /\ _get_active_membership(alliance_id, agent_id)
    /\ ~is_eliminated[agent_id]
    /\ afc_balance[agent_id] >= amount

contribute_to_treasury(alliance_id, agent_id, amount) ==
    LET net_contribution == amount - ALLIANCE_FEE IN
    /\ IF contribute_to_treasury_ok(alliance_id, agent_id, amount)
       THEN /\ afc_balance' = [afc_balance EXCEPT ![agent_id] = @ - amount]
            /\ alliances' = [alliances EXCEPT ![alliance_id].treasury = @ + net_contribution]
            /\ members' = [members EXCEPT ![alliance_id] =
                   _recalculate_shares([@ EXCEPT ![agent_id].contribution =
                                                    @ + net_contribution])]
            /\ result' = Res("contribute_to_treasury", TRUE, alliance_id, agent_id)
       ELSE /\ result' = Res("contribute_to_treasury", FALSE, alliance_id, 0)
            /\ UNCHANGED <<afc_balance, alliances, members>>
    /\ UNCHANGED <<reputation, is_eliminated, total_trades, num_member_rows,
                   frameAlliance, now, taskVars>>

initiate_defection_ok(alliance_id, agent_id) ==
    /\ _get_active_alliance(alliance_id)
    /\ _get_active_membership(alliance_id, agent_id)
    /\ members[alliance_id][agent_id].defection_initiated_at = None

initiate_defection(alliance_id, agent_id) ==
    /\ IF initiate_defection_ok(alliance_id, agent_id)
       THEN /\ members' = [members EXCEPT
                   ![alliance_id][agent_id].defection_initiated_at = now]
            /\ result' = Res("initiate_defection", TRUE, alliance_id, agent_id)
       ELSE /\ result' = Res("initiate_defection", FALSE, alliance_id, 0)
            /\ UNCHANGED members
    /\ UNCHANGED <<agentVars, alliances, num_member_rows, frameAlliance, now, taskVars>>

cancel_defection_ok(alliance_id, agent_id) ==
    /\ _get_active_membership(alliance_id, agent_id)
    /\ members[alliance_id][agent_id].defection_initiated_at # None

cancel_defection(alliance_id, agent_id) ==
    /\ IF cancel_defection_ok(alliance_id, agent_id)
       THEN /\ members' = [members EXCEPT
                   ![alliance_id][agent_id].defection_initiated_at = None]
            /\ result' = Res("cancel_defection", TRUE, alliance_id, agent_id)
       ELSE /\ result' = Res("cancel_defection", FALSE, alliance_id, 0)
            /\ UNCHANGED members
    /\ UNCHANGED <<agentVars, alliances, num_member_rows, frameAlliance, now, taskVars>>

\* variant without a countdown
countdown_elapsed_at_once(defection_initiated_at) == TRUE

countdown_elapsed(defection_initiated_at) ==
    ~(now - defection_initiated_at < BETRAYAL_COUNTDOWN_HOURS)

execute_defection_ok(alliance_id, agent_id) ==
    /\ _get_active_alliance(alliance_id)
    /\ _get_active_membership(alliance_id, agent_id)
    /\ members[alliance_id][agent_id].defection_initiated_at # None
    /\ countdown_elapsed(members[alliance_id][agent_id].defection_initiated_at)

defection_stolen(treasury) == RoundDiv(treasury * BETRAYAL_STEAL_PERCENT, 100)

\* the members that share the remainder
defection_others(rows, agent_id) == _get_all_active_members(rows) \ {agent_id}

\* variant that always splits the remainder equally
defection_payout_equal(remainder, rows, others, m) == RoundDiv(remainder, Cardinality(others))
defection_payout(remainder, rows, others, m) ==
    LET total_other_share == SumOf([a \in Agents |-> rows[a].share_percent], others) IN
    IF total_other_share > 0
    THEN RoundDiv(remainder * rows[m].share_percent, total_other_share)
    ELSE RoundDiv(remainder, Cardinality(others))

\* the writes of execute_defection from the alliance and the betrayer the
\* session has read; the members and the other agents are read after the
\* flush of the betrayer's balance, in the write transaction
execute_defection_write(alliance_id, agent_id, treasury, betrayer_balance, betrayer_reputation) ==
    LET rows == members[alliance_id]
        stolen == defection_stolen(treasury)
        remainder == treasury - stolen
        others == defection_others(rows, agent_id)
    IN
    /\ afc_balance' = [a \in Agents |->
           IF a = agent_id THEN betrayer_balance + stolen
           ELSE IF a \in others /\ remainder > 0
           THEN afc_balance[a] + defection_payout(remainder, rows, others, a)
           ELSE afc_balance[a]]
    /\ members' = [members EXCEPT ![alliance_id] = [a \in Agents |-> NoMember]]
    /\ alliances' = [alliances EXCEPT ![alliance_id].status = "betrayed",
                                      ![alliance_id].betrayed_by = agent_id,
                                      ![alliance_id].treasury = 0]
    /\ reputation' = [reputation EXCEPT
           ![agent_id] = Max(REP_MIN, betrayer_reputation + REP_BETRAYAL)]

execute_defection(alliance_id, agent_id) ==
    /\ IF execute_defection_ok(alliance_id, agent_id)
       THEN /\ execute_defection_write(alliance_id, agent_id,
                   alliances[alliance_id].treasury,
                   afc_balance[agent_id], reputation[agent_id])
            /\ result' = Res("execute_defection", TRUE, alliance_id, agent_id)
       ELSE /\ result' = Res("execute_defection", FALSE, alliance_id, 0)
            /\ UNCHANGED <<afc_balance, reputation, alliances, members>>
    /\ UNCHANGED <<is_eliminated, total_trades, num_member_rows, frameAlliance, now, taskVars>>

AllianceFounders == {1}
JoinCalls == {<<1, 2>>, <<1, 3>>}
Contributions == {<<1, 1, 602>>, <<1, 2, 402>>, <<1, 3, 402>>}

\* membership and treasury calls
NextShares ==
    \/ \E f \in AllianceFounders : create_alliance(f)
    \/ \E id \in AllianceIds, a \in Agents : join_alliance(id, a)
    \/ \E id \in AllianceIds, a \in Agents : leave_alliance(id, a)
    \/ \E c \in Contributions :
          c[1] \in AllianceIds /\ contribute_to_treasury(c[1], c[2], c[3])

SpecShares == Init /\ [][NextShares]_vars

\* an alliance is filled, then members defect
NextDefection ==
    \/ Tick
    \/ \E f \in AllianceFounders : create_alliance(f)
    \/ \E j \in JoinCalls : j[1] \in AllianceIds /\ join_alliance(j[1], j[2])
    \/ \E c \in Contributions :
          c[1] \in AllianceIds /\ contribute_to_treasury(c[1], c[2], c[3])
    \/ \E id \in AllianceIds, a \in Agents : initiate_defection(id, a)
    \/ \E id \in AllianceIds, a \in Agents : execute_defection(id, a)

SpecDefection == Init /\ [][NextDefection]_vars

\* variant that pays the whole treasury to every member
dissolve_payout_whole(treasury, share_percent) == treasury

\* the payout of a member when the founder dissolves the alliance
dissolve_payout(treasury, share_percent) == RoundDiv(treasury * share_percent, 10000)

dissolve_alliance(alliance_id, founder_id) ==
    /\ IF /\ _get_active_alliance(alliance_id)
          /\ alliances[alliance_id].founder_id = founder_id
       THEN LET rows == members[alliance_id]
                active == _get_all_active_members(rows)
            IN /\ afc_balance' = [a \in Agents |->
                      IF a \in active /\ alliances[alliance_id].treasury > 0
                      THEN afc_balance[a] + dissolve_payout(
                               alliances[alliance_id].treasury, rows[a].share_percent)
                      ELSE afc_balance[a]]
               /\ members' = [members EXCEPT ![alliance_id] =
                      [a \in Agents |-> [rows[a] EXCEPT !.is_active = FALSE]]]
               /\ alliances' = [alliances EXCEPT ![alliance_id].status = "dissolved",
                                                 ![alliance_id].treasury = 0]
               /\ result' = Res("dissolve_alliance", TRUE, alliance_id, founder_id)
       ELSE /\ result' = Res("dissolve_alliance", FALSE, alliance_id, 0)
            /\ UNCHANGED <<afc_balance, alliances, members>>
    /\ UNCHANGED <<reputation, is_eliminated, total_trades, num_member_rows,
                   frameAlliance, now, taskVars>>

\* the countdown: defections are initiated, cancelled and executed as the clock moves
NextCountdown ==
    \/ Tick
    \/ \E f \in AllianceFounders : create_alliance(f)
    \/ \E j \in JoinCalls : j[1] \in AllianceIds /\ join_alliance(j[1], j[2])
    \/ \E id \in AllianceIds, a \in Agents : initiate_defection(id, a)
    \/ \E id \in AllianceIds, a \in Agents : cancel_defection(id, a)
    \/ \E id \in AllianceIds, a \in Agents : execute_defection(id, a)
    \/ \E id \in AllianceIds, f \in AllianceFounders : dissolve_alliance(id, f)

SpecCountdown == Init /\ [][NextCountdown]_vars

\* ───────────────────────── the defection sweep, interleaved ─────────────
\* check_pending_defections reads the pending rows in a session of its own,
\* then calls execute_defection for each matured row; every call of
\* execute_defection is a session of four awaited steps.

PendingDefections ==
    LET RECURSIVE rows_from(_, _)
        rows_from(id, a) ==
            IF id > Len(alliances) THEN <<>>
            ELSE IF a > NumAgents THEN rows_from(id + 1, 1)
            ELSE IF /\ alliances[id].status = "active"
                    /\ members[id][a].is_active
                    /\ members[id][a].defection_initiated_at # None
            THEN <<[id |-> id, agent |-> a, at |-> members[id][a].defection_initiated_at]>>
                 \o rows_from(id, a + 1)
            ELSE rows_from(id, a + 1)
    IN rows_from(1, 1)

check_pending_defections_scan(t) ==
    /\ pc[t] = "idle"
    /\ Goto(t, "check_pending_defections_loop",
            [NoLoc EXCEPT !.op = "check_pending_defections", !.now = now,
                          !.pending = PendingDefections])
    /\ UNCHANGED <<agentVars, allianceVars, frameAlliance, now, result>>

\* the for loop: the next pending row, executed when its countdown had
\* elapsed at the start of the sweep
check_pending_defections_loop(t) ==
    /\ pc[t] = "check_pending_defections_loop"
    /\ IF loc[t].pending = <<>>
       THEN /\ Done(t)
            /\ result' = Res("check_pending_defections", TRUE, 0, 0)
       ELSE LET member == Head(loc[t].pending) IN
            /\ IF ~(loc[t].now - member.at < BETRAYAL_COUNTDOWN_HOURS)
               THEN Goto(t, "execute_defection_read_alliance",
                         [loc[t] EXCEPT !.id = member.id, !.agent = member.agent,
                                        !.pending = Tail(@)])
               ELSE Goto(t, "check_pending_defections_loop",
                         [loc[t] EXCEPT !.pending = Tail(@)])
            /\ UNCHANGED result
    /\ UNCHANGED <<agentVars, allianceVars, frameAlliance, now>>

\* a failed execute_defection returns to the loop of the sweep
execute_defection_fails(t) ==
    /\ Goto(t, "check_pending_defections_loop", loc[t])
    /\ result' = Res("execute_defection", FALSE, loc[t].id, 0)

execute_defection_read_alliance(t) ==
    /\ pc[t] = "execute_defection_read_alliance"
    /\ IF _get_active_alliance(loc[t].id)
       THEN /\ Goto(t, "execute_defection_read_member",
                    [loc[t] EXCEPT !.treasury = alliances[loc[t].id].treasury])
            /\ UNCHANGED result
       ELSE execute_defection_fails(t)
    /\ UNCHANGED <<agentVars, allianceVars, frameAlliance, now>>

execute_defection_read_member(t) ==
    /\ pc[t] = "execute_defection_read_member"
    /\ LET member == members[loc[t].id][loc[t].agent] IN
       IF /\ member.is_active
          /\ member.defection_initiated_at # None
          /\ countdown_elapsed(member.defection_initiated_at)
       THEN /\ Goto(t, "execute_defection_read_betrayer", loc[t])
            /\ UNCHANGED result
       ELSE execute_defection_fails(t)
    /\ UNCHANGED <<agentVars, allianceVars, frameAlliance, now>>

execute_defection_read_betrayer(t) ==
    /\ pc[t] = "execute_defection_read_betrayer"
    /\ Goto(t, "execute_defection_commit",
            [loc[t] EXCEPT !.bal = afc_balance[loc[t].agent],
                           !.rep = reputation[loc[t].agent]])
    /\ UNCHANGED <<agentVars, allianceVars, frameAlliance, now, result>>

execute_defection_commit(t) ==
    /\ pc[t] = "execute_defection_commit"
    /\ execute_defection_write(loc[t].id, loc[t].agent, loc[t].treasury,
                               loc[t].bal, loc[t].rep)
    /\ result' = Res("execute_defection", TRUE, loc[t].id, loc[t].agent)
    /\ Goto(t, "check_pending_defections_loop",
            [loc[t] EXCEPT !.bal = 0, !.rep = 0, !.treasury = 0])
    /\ UNCHANGED <<is_eliminated, total_trades, num_member_rows, frameAlliance, now>>

NextDefectionRace ==
    \/ Tick
    \/ \E f \in AllianceFounders : create_alliance(f)
    \/ \E c \in Contributions :
          c[1] \in AllianceIds /\ c[2] \in AllianceFounders
          /\ contribute_to_treasury(c[1], c[2], c[3])
    \/ \E id \in AllianceIds, a \in AllianceFounders : initiate_defection(id, a)
    \/ \E id \in AllianceIds, a \in AllianceFounders : cancel_defection(id, a)
    \/ \E t \in Tasks : check_pending_defections_scan(t)
    \/ \E t \in Tasks : check_pending_defections_loop(t)
    \/ \E t \in Tasks : execute_defection_read_alliance(t)
    \/ \E t \in Tasks : execute_defection_read_member(t)
    \/ \E t \in Tasks : execute_defection_read_betrayer(t)
    \/ \E t \in Tasks : execute_defection_commit(t)

SpecDefectionRace == Init /\ [][NextDefectionRace]_vars

\* ───────────────────────── AllianceEngine: emergency ejection ───────────

\* eligible: the active members other than the target
eject_eligible(rows, target_id) == _get_all_active_members(rows) \ {target_id}

\* valid_votes = [v for v in voter_ids if v in eligible_ids]: the list keeps
\* every entry of voter_ids that names an eligible member
eject_valid_votes(rows, target_id, voter_ids) ==
    SelectSeq(voter_ids, LAMBDA v : v \in eject_eligible(rows, target_id))

majority_needed(rows, target_id) == (Cardinality(eject_eligible(rows, target_id)) \div 2) + 1

emergency_vote_eject_ok(alliance_id, target_id, voter_ids) ==
    /\ _get_active_alliance(alliance_id)
    /\ _get_active_membership(alliance_id, target_id)
    /\ ~(Len(eject_valid_votes(members[alliance_id], target_id, voter_ids))
           < majority_needed(members[alliance_id], target_id))

\* the refund: the contribution, capped at the treasury
eject_refund(contribution, treasury) == IF contribution > treasury THEN treasury ELSE contribution

emergency_vote_eject(alliance_id, target_id, voter_ids) ==
    /\ IF emergency_vote_eject_ok(alliance_id, target_id, voter_ids)
       THEN LET refund == eject_refund(members[alliance_id][target_id].contribution,
                                       alliances[alliance_id].treasury)
            IN /\ alliances' = [alliances EXCEPT ![alliance_id].treasury = @ - refund]
               /\ afc_balance' = [afc_balance EXCEPT ![target_id] = @ + refund]
               /\ members' = [members EXCEPT ![alliance_id] =
                      _recalculate_shares([@ EXCEPT
                          ![target_id].is_active = FALSE,
                          ![target_id].defection_initiated_at = None])]
               /\ result' = Res("emergency_vote_eject", TRUE, alliance_id, target_id)
       ELSE /\ result' = Res("emergency_vote_eject", FALSE, alliance_id, 0)
            /\ UNCHANGED <<afc_balance, alliances, members>>
    /\ UNCHANGED <<reputation, is_eliminated, total_trades, num_member_rows,
                   frameAlliance, now, taskVars>>

\* alliance, target, voter_ids
EjectCalls == {<<1, 1, <<2, 3>>>>, <<1, 1, <<2, 2>>>>, <<1, 1, <<2>>>>,
               <<1, 3, <<3, 1>>>>, <<1, 2, <<>>>>}

NextEject ==
    \/ \E f \in AllianceFounders : create_alliance(f)
    \/ \E j \in JoinCalls : j[1] \in AllianceIds /\ join_alliance(j[1], j[2])
    \/ \E c \in Contributions :
          c[1] \in AllianceIds /\ contribute_to_treasury(c[1], c[2], c[3])
    \/ \E id \in AllianceIds, a \in Agents : initiate_defection(id, a)
    \/ \E c \in EjectCalls :
          c[1] \in AllianceIds /\ emergency_vote_eject(c[1], c[2], c[3])

SpecEject == Init /\ [][NextEject]_vars

\* ───────────────────────── a member leaves while the sweep runs ─────────
\* leave_alliance is a session of four awaited steps: the alliance, the
\* membership, the agent, then the flush with the recomputed shares and the
\* commit.  The treasury and the balance are written as absolute values
\* computed from the rows the session has read.

leave_alliance_read_alliance(t, alliance_id, agent_id) ==
    /\ pc[t] = "idle"
    /\ IF _get_active_alliance(alliance_id)
       THEN /\ Goto(t, "leave_alliance_read_member",
                    [NoLoc EXCEPT !.op = "leave_alliance", !.id = alliance_id,
                                  !.agent = agent_id,
                                  !.treasury = alliances[alliance_id].treasury])
            /\ UNCHANGED result
       ELSE /\ result' = Res("leave_alliance", FALSE, alliance_id, 0)
            /\ UNCHANGED taskVars
    /\ UNCHANGED <<agentVars, allianceVars, frameAlliance, now>>

leave_alliance_read_member(t) ==
    /\ pc[t] = "leave_alliance_read_member"
    /\ LET member == members[loc[t].id][loc[t].agent] IN
       IF member.is_active /\ member.defection_initiated_at = None
       THEN /\ IF loc[t].treasury > 0 /\ member.share_percent > 0
               THEN Goto(t, "leave_alliance_read_agent",
                         [loc[t] EXCEPT !.share = member.share_percent])
               ELSE Goto(t, "leave_alliance_commit", loc[t])
            /\ UNCHANGED result
       ELSE /\ Done(t)
            /\ result' = Res("leave_alliance", FALSE, loc[t].id, 0)
    /\ UNCHANGED <<agentVars, allianceVars, frameAlliance, now>>

leave_alliance_read_agent(t) ==
    /\ pc[t] = "leave_alliance_read_agent"
    /\ Goto(t, "leave_alliance_commit",
            [loc[t] EXCEPT !.bal = afc_balance[loc[t].agent]])
    /\ UNCHANGED <<agentVars, allianceVars, frameAlliance, now, result>>

leave_alliance_commit(t) ==
    /\ pc[t] = "leave_alliance_commit"
    /\ LET share_amount == RoundDiv(loc[t].treasury * loc[t].share, 10000) IN
       /\ IF loc[t].share > 0
          THEN /\ alliances' = [alliances EXCEPT
                      ![loc[t].id].treasury = loc[t].treasury - share_amount]
               /\ afc_balance' = [afc_balance EXCEPT
                      ![loc[t].agent] = loc[t].bal + share_amount]
          ELSE UNCHANGED <<alliances, afc_balance>>
       /\ members' = [members EXCEPT ![loc[t].id] =
              _recalculate_shares([@ EXCEPT ![loc[t].agent].is_active = FALSE])]
    /\ result' = Res("leave_alliance", TRUE, loc[t].id, loc[t].agent)
    /\ Done(t)
    /\ UNCHANGED <<reputation, is_eliminated, total_trades, num_member_rows,
                   frameAlliance, now>>

\* the sweep runs in one task, the decision loop of the leaving member in the
\* others; agent 3 stays outside the alliance, which is filled in the first hour
SweepTask == 1
RaceMembers == {1, 2}

NextLeaveRace ==
    \/ Tick
    \/ \E f \in AllianceFounders : create_alliance(f)
    \/ \E j \in JoinCalls :
          /\ now = 0 /\ j[1] \in AllianceIds /\ j[2] \in RaceMembers
          /\ join_alliance(j[1], j[2])
    \/ \E c \in Contributions :
          /\ now = 0 /\ c[1] \in AllianceIds /\ c[2] \in RaceMembers
          /\ contribute_to_treasury(c[1], c[2], c[3])
    \/ \E id \in AllianceIds, a \in AllianceFounders : initiate_defection(id, a)
    \/ check_pending_defections_scan(SweepTask)
    \/ check_pending_defections_loop(SweepTask)
    \/ execute_defection_read_alliance(SweepTask)
    \/ execute_defection_read_member(SweepTask)
    \/ execute_defection_read_betrayer(SweepTask)
    \/ execute_defection_commit(SweepTask)
    \/ \E t \in Tasks \ {SweepTask}, id \in AllianceIds, a \in RaceMembers :
          leave_alliance_read_alliance(t, id, a)
    \/ \E t \in Tasks \ {SweepTask} : leave_alliance_read_member(t)
    \/ \E t \in Tasks \ {SweepTask} : leave_alliance_read_agent(t)
    \/ \E t \in Tasks \ {SweepTask} : leave_alliance_commit(t)

SpecLeaveRace == Init /\ [][NextLeaveRace]_vars

\* ───────────────────────── SocialEngine ─────────────────────────────────
\* The content of a post and the vote counters of a post are not kept: no
\* modelled call reads them.  Every content passed by the callers is valid.

PostIds == 1..Len(posts)

\* what the calls of the social engine never write
frameSocial == <<gameVars, leverageVars, tradeVars, darkVars, allianceVars, eventVars, now, runVars>>

\* _check_spam resets the counter when the stored reset time is missing or
\* at least one hour old
_check_spam_resets(agent_id) ==
    \/ posts_hour_reset[agent_id] = None
    \/ now - posts_hour_reset[agent_id] >= 1

create_post(author_id) ==
    /\ Len(posts) < MaxPosts
    /\ IF is_eliminated[author_id]
       THEN /\ result' = Res("create_post", FALSE, 0, 0)
            /\ UNCHANGED <<agentVars, socialVars>>
       ELSE LET counted == IF _check_spam_resets(author_id)
                           THEN 0 ELSE posts_this_hour[author_id]
                is_spam == counted >= MAX_POSTS_PER_HOUR
            IN /\ afc_balance' = [afc_balance EXCEPT ![author_id] =
                                     IF is_spam THEN @ - SPAM_FINE ELSE @]
               /\ posts' = Append(posts, [author_id |-> author_id, is_deleted |-> FALSE])
               /\ posts_this_hour' = [posts_this_hour EXCEPT ![author_id] = counted + 1]
               /\ posts_hour_reset' = [posts_hour_reset EXCEPT ![author_id] =
                                          IF _check_spam_resets(author_id) THEN now ELSE @]
               /\ result' = Res("create_post", TRUE, Len(posts) + 1, author_id)
               /\ UNCHANGED <<reputation, is_eliminated, total_trades, votes>>
    /\ UNCHANGED <<frameSocial, taskVars>>

\* upvote and downvote differ in the reputation change of the author
cast_vote(op, post_id, voter_id, rep_change) ==
    /\ IF /\ ~is_eliminated[voter_id]
          /\ post_id \in PostIds
          /\ ~posts[post_id].is_deleted
          /\ <<post_id, voter_id>> \notin votes
       THEN /\ votes' = votes \cup {<<post_id, voter_id>>}
            /\ reputation' = [reputation EXCEPT ![posts[post_id].author_id] =
                                 Max(REP_MIN, Min(REP_MAX, @ + rep_change))]
            /\ result' = Res(op, TRUE, post_id, voter_id)
       ELSE /\ result' = Res(op, FALSE, 0, 0)
            /\ UNCHANGED <<reputation, votes>>
    /\ UNCHANGED <<afc_balance, is_eliminated, total_trades, posts, posts_this_hour,
                   posts_hour_reset, frameSocial, taskVars>>

upvote(post_id, voter_id) == cast_vote("upvote", post_id, voter_id, REP_UPVOTE)

downvote(post_id, voter_id) == cast_vote("downvote", post_id, voter_id, REP_DOWNVOTE)

\* the cost of quantity fake upvotes: FAKE_UPVOTES_COST per 5
fake_upvotes_cost(quantity) == (FAKE_UPVOTES_COST * Max(1, quantity)) \div 5

\* detected is the outcome of random.random() < _MANIPULATION_DETECTION_CHANCE
buy_fake_upvotes(buyer_id, post_id, quantity, detected) ==
    /\ IF /\ ~(current_hour < VOTE_MANIP_UNLOCK_HOUR)
          /\ ~is_eliminated[buyer_id]
          /\ ~(afc_balance[buyer_id] < fake_upvotes_cost(quantity))
          /\ post_id \in PostIds
          /\ ~posts[post_id].is_deleted
       THEN /\ afc_balance' = [afc_balance EXCEPT ![buyer_id] =
                   IF detected THEN @ - fake_upvotes_cost(quantity) - VOTE_MANIP_FINE
                   ELSE @ - fake_upvotes_cost(quantity)]
            /\ reputation' = [reputation EXCEPT ![buyer_id] =
                   IF detected
                   THEN Max(REP_MIN, Min(REP_MAX, @ + VOTE_MANIP_REP_PENALTY))
                   ELSE @]
            /\ result' = Res("buy_fake_upvotes", TRUE, post_id, buyer_id)
       ELSE /\ result' = Res("buy_fake_upvotes", FALSE, 0, 0)
            /\ UNCHANGED <<afc_balance, reputation>>
    /\ UNCHANGED <<is_eliminated, total_trades, socialVars, frameSocial, taskVars>>

\* inputs drawn by the callers
PostAuthors == {1}
VoteCalls == {<<1, 2>>}
FakeUpvoteCalls == {<<1, 1, 5>>}

NextSocial ==
    \/ Tick
    \/ update_game_hour(VOTE_MANIP_UNLOCK_HOUR)
    \/ \E a \in PostAuthors : create_post(a)
    \/ \E v \in VoteCalls : upvote(v[1], v[2])
    \/ \E v \in VoteCalls : downvote(v[1], v[2])
    \/ \E f \in FakeUpvoteCalls, detected \in BOOLEAN :
          buy_fake_upvotes(f[1], f[2], f[3], detected)

SpecSocial == Init /\ [][NextSocial]_vars

\* ───────────────────────── EventsEngine: eliminations, tribunal ─────────

\* what check_elimination never writes
frameCheckpoint == <<gameVars, leverageVars, tradeVars, darkVars, allianceVars, socialVars, now, runVars>>

\* what the other calls of the events engine never write
frameEvents == <<frameCheckpoint, agents_remaining>>

\* ORDER BY afc_balance ASC LIMIT 1 over the agents not eliminated: any row of
\* minimum balance
elimination_victims ==
    {v \in Agents : /\ ~is_eliminated[v]
                    /\ \A a \in Agents : ~is_eliminated[a] => afc_balance[v] <= afc_balance[a]}

\* ORDER BY afc_balance DESC LIMIT 3 over the other agents not eliminated
elimination_top3(victim) ==
    LET others == {a \in Agents : ~is_eliminated[a] /\ a # victim} IN
    {S \in SUBSET others :
        /\ Cardinality(S) = Min(3, Cardinality(others))
        /\ \A a \in S, b \in others \ S : afc_balance[a] >= afc_balance[b]}

\* variant that credits the whole balance to each of the agents
elimination_share_whole(balance, top3) == balance

\* share = round(victim.afc_balance / len(top3), 4), when there is something
\* to share and somebody to share it with
elimination_share(balance, top3) ==
    IF top3 # {} /\ balance > 0 THEN RoundDiv(balance, Cardinality(top3)) ELSE 0

\* the map redistribution: the share under each credited agent
elimination_redistribution(balance, top3) ==
    [a \in IF balance > 0 THEN top3 ELSE {} |-> elimination_share(balance, top3)]

check_elimination(hour) ==
    /\ Cardinality(eliminations) < MaxEliminations
    /\ IF /\ hour \in ELIMINATION_HOURS
          /\ \A e \in eliminations : e.hour # hour
          /\ elimination_victims # {}
       THEN \E victim \in elimination_victims : \E top3 \in elimination_top3(victim) :
               LET redistribution == elimination_redistribution(afc_balance[victim], top3)
               IN /\ afc_balance' = [a \in Agents |->
                         IF a = victim THEN 0
                         ELSE IF a \in DOMAIN redistribution
                              THEN afc_balance[a] + redistribution[a]
                         ELSE afc_balance[a]]
                  /\ is_eliminated' = [is_eliminated EXCEPT ![victim] = TRUE]
                  /\ eliminations' = eliminations \cup
                         {[agent_id |-> victim, hour |-> hour,
                           final_afc |-> afc_balance[victim],
                           redistribution |-> redistribution]}
                  /\ agents_remaining' = agents_remaining - 1
                  /\ result' = Res("check_elimination", TRUE, hour, victim)
                  /\ UNCHANGED <<reputation, total_trades>>
       ELSE /\ result' = Res("check_elimination", FALSE, 0, 0)
            /\ UNCHANGED <<agentVars, eliminations, agents_remaining>>
    /\ UNCHANGED <<blackmails, tribunal_votes, reputation_log, frameCheckpoint, taskVars>>

cast_tribunal_vote(voter_id, target_id, hour) ==
    /\ Cardinality(tribunal_votes) < MaxTribunalVotes
    /\ IF /\ voter_id # target_id
          /\ \A v \in tribunal_votes : ~(v.voter_id = voter_id /\ v.hour = hour)
       THEN /\ tribunal_votes' = tribunal_votes \cup
                   {[voter_id |-> voter_id, target_id |-> target_id, hour |-> hour]}
            /\ result' = Res("cast_tribunal_vote", TRUE, target_id, voter_id)
       ELSE /\ result' = Res("cast_tribunal_vote", FALSE, 0, 0)
            /\ UNCHANGED tribunal_votes
    /\ UNCHANGED <<agentVars, blackmails, eliminations, reputation_log, frameEvents,
                   taskVars>>

\* the targets with the most votes of the hour: rows[0] of the grouped query
tribunal_targets(hour) ==
    LET count(t) == Cardinality({v \in tribunal_votes : v.hour = hour /\ v.target_id = t}) IN
    {t \in Agents : count(t) > 0 /\ \A u \in Agents : count(u) <= count(t)}

resolve_tribunal(hour) ==
    /\ IF tribunal_targets(hour) # {}
       THEN \E target_id \in tribunal_targets(hour) :
               LET afc_penalty == RoundDiv(afc_balance[target_id], 2)
                   voter_rows == {v \in tribunal_votes : v.hour = hour}
                   share == IF afc_penalty > 0
                            THEN RoundDiv(afc_penalty, Cardinality(voter_rows))
                            ELSE 0
                   credited(a) == IF is_eliminated[a] THEN 0
                                  ELSE share * Cardinality({v \in voter_rows : v.voter_id = a})
               IN /\ afc_balance' = [a \in Agents |->
                         IF a = target_id
                         THEN afc_balance[a] - afc_penalty + credited(a)
                         ELSE afc_balance[a] + credited(a)]
                  /\ reputation' = [reputation EXCEPT ![target_id] = 0]
                  /\ result' = Res("resolve_tribunal", TRUE, hour, target_id)
       ELSE /\ result' = Res("resolve_tribunal", FALSE, 0, 0)
            /\ UNCHANGED <<afc_balance, reputation>>
    /\ UNCHANGED <<is_eliminated, total_trades, eventVars, frameEvents, taskVars>>

\* ───────────────────────── DarkMarketEngine: blackmail ──────────────────
\* The deadline of a contract is not kept: no modelled call reads it.

BlackmailIds == 1..Len(blackmails)

create_blackmail(blackmailer_id, target_id, demand_afc, deadline_hours) ==
    /\ Len(blackmails) < MaxBlackmails
    /\ IF /\ _check_dark_market_unlocked
          /\ blackmailer_id # target_id
          /\ demand_afc > 0
          /\ deadline_hours > 0
          /\ ~is_eliminated[blackmailer_id]
          /\ ~is_eliminated[target_id]
       THEN /\ blackmails' = Append(blackmails,
                   [blackmailer_id |-> blackmailer_id, target_id |-> target_id,
                    demand_afc |-> demand_afc, deadline |-> now + deadline_hours,
                    status |-> "active"])
            /\ result' = Res("create_blackmail", TRUE, Len(blackmails) + 1, blackmailer_id)
       ELSE /\ result' = Res("create_blackmail", FALSE, 0, 0)
            /\ UNCHANGED blackmails
    /\ UNCHANGED <<agentVars, tribunal_votes, eliminations, reputation_log, frameEvents,
                   taskVars>>

pay_blackmail(contract_id, target_id) ==
    /\ contract_id \in BlackmailIds
    /\ LET contract == blackmails[contract_id] IN
       IF /\ contract.target_id = target_id
          /\ contract.status = "active"
          /\ ~(afc_balance[target_id] < contract.demand_afc)
       THEN /\ afc_balance' = [afc_balance EXCEPT
                   ![target_id] = @ - contract.demand_afc,
                   ![contract.blackmailer_id] = @ + contract.demand_afc]
            /\ blackmails' = [blackmails EXCEPT ![contract_id].status = "paid"]
            /\ result' = Res("pay_blackmail", TRUE, contract_id, target_id)
       ELSE /\ result' = Res("pay_blackmail", FALSE, 0, 0)
            /\ UNCHANGED <<afc_balance, blackmails>>
    /\ UNCHANGED <<reputation, is_eliminated, total_trades, tribunal_votes, eliminations,
                   reputation_log, frameEvents, taskVars>>

expose_blackmail(contract_id, target_id) ==
    /\ contract_id \in BlackmailIds
    /\ LET contract == blackmails[contract_id] IN
       IF /\ contract.target_id = target_id
          /\ contract.status = "active"
       THEN /\ reputation' = [reputation EXCEPT ![contract.blackmailer_id] =
                   Max(REP_MIN, Min(REP_MAX, @ + REP_BLACKMAIL_EXPOSED))]
            /\ blackmails' = [blackmails EXCEPT ![contract_id].status = "exposed"]
            /\ result' = Res("expose_blackmail", TRUE, contract_id, target_id)
       ELSE /\ result' = Res("expose_blackmail", FALSE, 0, 0)
            /\ UNCHANGED <<reputation, blackmails>>
    /\ UNCHANGED <<afc_balance, is_eliminated, total_trades, tribunal_votes, eliminations,
                   reputation_log, frameEvents, taskVars>>

ignore_blackmail(contract_id, target_id) ==
    /\ contract_id \in BlackmailIds
    /\ LET contract == blackmails[contract_id] IN
       IF /\ contract.target_id = target_id
          /\ contract.status = "active"
       THEN /\ blackmails' = [blackmails EXCEPT ![contract_id].status = "ignored"]
            /\ result' = Res("ignore_blackmail", TRUE, contract_id, target_id)
       ELSE /\ result' = Res("ignore_blackmail", FALSE, 0, 0)
            /\ UNCHANGED blackmails
    /\ UNCHANGED <<agentVars, tribunal_votes, eliminations, reputation_log, frameEvents,
                   taskVars>>

\* the ACTIVE contracts whose deadline has passed
expired_contracts == {c \in BlackmailIds : blackmails[c].status = "active"
                                           /\ blackmails[c].deadline <= now}

expired_rows ==
    [c \in BlackmailIds |->
        IF c \in expired_contracts
        THEN [blackmails[c] EXCEPT !.status = "expired"] ELSE blackmails[c]]

\* the sweep of the game loop
resolve_expired_blackmail ==
    /\ blackmails' = expired_rows
    /\ result' = Res("resolve_expired_blackmail", TRUE, Cardinality(expired_contracts), 0)
    /\ UNCHANGED <<agentVars, tribunal_votes, eliminations, reputation_log, frameEvents,
                   taskVars>>

\* pay_blackmail as a session of four awaited steps: the contract, the target,
\* the blackmailer, then the commit of the balances and the status computed
\* from the rows that were read
pay_blackmail_read_contract(t, contract_id, target_id) ==
    /\ pc[t] = "idle"
    /\ contract_id \in BlackmailIds
    /\ IF /\ blackmails[contract_id].target_id = target_id
          /\ blackmails[contract_id].status = "active"
       THEN /\ Goto(t, "pay_blackmail_read_target",
                    [NoLoc EXCEPT !.op = "pay_blackmail", !.id = contract_id,
                                  !.agent = target_id])
            /\ UNCHANGED result
       ELSE /\ result' = Res("pay_blackmail", FALSE, 0, 0)
            /\ UNCHANGED taskVars
    /\ UNCHANGED <<agentVars, eventVars, frameEvents>>

pay_blackmail_read_target(t) ==
    /\ pc[t] = "pay_blackmail_read_target"
    /\ IF afc_balance[loc[t].agent] < blackmails[loc[t].id].demand_afc
       THEN /\ Done(t)
            /\ result' = Res("pay_blackmail", FALSE, 0, 0)
       ELSE /\ Goto(t, "pay_blackmail_read_blackmailer",
                    [loc[t] EXCEPT !.bal = afc_balance[loc[t].agent]])
            /\ UNCHANGED result
    /\ UNCHANGED <<agentVars, eventVars, frameEvents>>

pay_blackmail_read_blackmailer(t) ==
    /\ pc[t] = "pay_blackmail_read_blackmailer"
    /\ Goto(t, "pay_blackmail_commit",
            [loc[t] EXCEPT !.other_bal =
                afc_balance[blackmails[loc[t].id].blackmailer_id]])
    /\ UNCHANGED <<agentVars, eventVars, frameEvents, result>>

pay_blackmail_commit(t) ==
    /\ pc[t] = "pay_blackmail_commit"
    /\ LET contract == blackmails[loc[t].id] IN
       /\ afc_balance' = [afc_balance EXCEPT
              ![loc[t].agent] = loc[t].bal - contract.demand_afc,
              ![contract.blackmailer_id] = loc[t].other_bal + contract.demand_afc]
       /\ blackmails' = [blackmails EXCEPT ![loc[t].id].status = "paid"]
    /\ result' = Res("pay_blackmail", TRUE, loc[t].id, loc[t].agent)
    /\ Done(t)
    /\ UNCHANGED <<reputation, is_eliminated, total_trades, tribunal_votes, eliminations,
                   reputation_log, frameEvents>>

\* ───────────────────────── ReputationEngine ─────────────────────────────

\* variant that writes the sum as it is
_clamp_unbounded(value) == value
_clamp(value) == Max(REP_MIN, Min(REP_MAX, value))

\* called by the admin route modify-reputation
modify_reputation(agent_id, change) ==
    /\ Len(reputation_log) < MaxReputationLogs
    /\ LET new_reputation == _clamp(reputation[agent_id] + change) IN
       /\ reputation_log' = Append(reputation_log,
              [agent_id |-> agent_id, change |-> change, new_value |-> new_reputation])
       /\ reputation' = [reputation EXCEPT ![agent_id] = new_reputation]
       /\ result' = Res("modify_reputation", TRUE, new_reputation, agent_id)
    /\ UNCHANGED <<afc_balance, is_eliminated, total_trades, blackmails, tribunal_votes,
                   eliminations, frameEvents, taskVars>>

\* ───────────────────────── calls after an elimination ───────────────────

\* inputs drawn by the callers
CheckedHours == {6, 7}
BlackmailOffers == {<<1, 2, 300, 1>>}

NextEliminated ==
    \/ update_game_hour(DARK_MARKET_UNLOCK_HOUR)
    \/ \E hour \in CheckedHours : check_elimination(hour)
    \/ \E o \in TradeOffers : create_trade_offer(o[1], o[2], o[3])
    \/ \E id \in TradeIds, a \in Agents : accept_trade(id, a)
    \/ \E o \in TradeOffers, amt \in TipAmounts : send_tip(o[1], o[2], amt)
    \/ \E f \in AllianceFounders : create_alliance(f)
    \/ \E id \in AllianceIds, a \in AllianceFounders : initiate_defection(id, a)
    \/ \E b \in BlackmailOffers : create_blackmail(b[1], b[2], b[3], b[4])
    \/ \E id \in BlackmailIds, a \in Agents : pay_blackmail(id, a)

SpecEliminated == Init /\ [][NextEliminated]_vars

\* ───────────────────────── the calls that change a reputation ───────────

\* inputs drawn by the callers
TribunalVotes == {<<2, 1, 6>>}
ReputationChanges == {<<1, 60>>, <<1, -60>>, <<2, 60>>, <<2, -60>>}
ScamOffers == {<<1, 2, 200>>}
BulkUpvoteCalls == {<<1, 1, 150>>}

\* the number of rows the database holds, over the tables of these calls
TotalRows ==
    Len(trades) + num_tips + Len(posts) + Len(alliances) + Len(blackmails) + Len(hits)
    + Cardinality(tribunal_votes) + Len(reputation_log)

NextReputation ==
    \/ Tick
    \/ update_game_hour(VOTE_MANIP_UNLOCK_HOUR)
    \/ \E o \in ScamOffers : TotalRows < MaxRows /\ create_trade_offer(o[1], o[2], o[3])
    \/ \E id \in TradeIds : execute_scam(id)
    \/ \E o \in ScamOffers, amt \in TipAmounts :
          TotalRows < MaxRows /\ send_tip(o[1], o[2], amt)
    \/ \E a \in PostAuthors : TotalRows < MaxRows /\ create_post(a)
    \/ \E v \in VoteCalls : upvote(v[1], v[2])
    \/ \E v \in VoteCalls : downvote(v[1], v[2])
    \/ \E f \in BulkUpvoteCalls, detected \in BOOLEAN :
          buy_fake_upvotes(f[1], f[2], f[3], detected)
    \/ \E f \in AllianceFounders : TotalRows < MaxRows /\ create_alliance(f)
    \/ \E id \in AllianceIds, a \in AllianceFounders : initiate_defection(id, a)
    \/ \E id \in AllianceIds, a \in AllianceFounders : execute_defection(id, a)
    \/ \E b \in BlackmailOffers : TotalRows < MaxRows /\ create_blackmail(b[1], b[2], b[3], b[4])
    \/ \E id \in BlackmailIds, b \in BlackmailOffers : expose_blackmail(id, b[2])
    \/ \E o \in HitOffers : TotalRows < MaxRows /\ create_hit_contract(o[1], o[2], o[3])
    \/ \E id \in HitIds : claim_hit_contract(id, 3)
    \/ \E id \in HitIds : complete_hit_contract(id)
    \/ \E v \in TribunalVotes : TotalRows < MaxRows /\ cast_tribunal_vote(v[1], v[2], v[3])
    \/ \E v \in TribunalVotes : resolve_tribunal(v[3])
    \/ \E c \in ReputationChanges : TotalRows < MaxRows /\ modify_reputation(c[1], c[2])

SpecReputation == Init /\ [][NextReputation]_vars

\* ───────────────────────── trades next to eliminations and admin changes ─

\* the admin changes of the sender's reputation
SenderReputationChanges == {<<1, 60>>, <<1, -60>>}

\* the two parties of the offers and an agent who is neither
Responders == {1, 2, 3}

SenderOffers == {<<1, 2, 200>>, <<1, 2, 960>>, <<1, 1, 200>>}

NextOffers ==
    \/ \E o \in SenderOffers : create_trade_offer(o[1], o[2], o[3])
    \/ \E id \in TradeIds, a \in Responders : accept_trade(id, a)
    \/ \E id \in TradeIds, a \in Responders : reject_trade(id, a)
    \/ \E id \in TradeIds : execute_scam(id)
    \/ \E hour \in CheckedHours : check_elimination(hour)
    \/ \E c \in SenderReputationChanges : modify_reputation(c[1], c[2])

SpecOffers == Init /\ [][NextOffers]_vars

\* ───────────────────────── TradingEngine: leverage positions ────────────

PositionIds == 1..Len(positions)

\* what the leverage calls never write
frameLeverage == <<gameVars, tradeVars, darkVars, allianceVars, socialVars, eventVars, now, runVars>>

Directions == {"above", "below"}

\* the ids of the positions with status ACTIVE
active_positions == {p \in PositionIds : positions[p].status = "active"}

\* active_count: the ACTIVE positions of one agent
active_count(agent_id) ==
    Cardinality({p \in active_positions : positions[p].agent_id = agent_id})

\* variant that lets one position more through
leverage_limit_reached_above(agent_id) ==
    active_count(agent_id) > MAX_LEVERAGE_POSITIONS

leverage_limit_reached(agent_id) ==
    active_count(agent_id) >= MAX_LEVERAGE_POSITIONS

\* potential_return = round(bet_amount * LEVERAGE_MULTIPLIER, 4); variant without the multiplier
potential_return_stake(bet_amount) == bet_amount

potential_return(bet_amount) == RoundDiv(bet_amount * LEVERAGE_MULTIPLIER, 100)

create_leverage_bet_ok(agent_id, direction, target_price, bet_amount, hours) ==
    /\ direction \in Directions
    /\ bet_amount > 0
    /\ target_price > 0
    /\ hours > 0
    /\ current_hour >= LEVERAGE_UNLOCK_HOUR
    /\ ~is_eliminated[agent_id]
    /\ ~leverage_limit_reached(agent_id)
    /\ afc_balance[agent_id] >= bet_amount + LEVERAGE_FEE

create_leverage_bet(agent_id, direction, target_price, bet_amount, hours) ==
    IF create_leverage_bet_ok(agent_id, direction, target_price, bet_amount, hours)
    THEN /\ Len(positions) < MaxPositions
         /\ afc_balance' = [afc_balance EXCEPT
                ![agent_id] = @ - (bet_amount + LEVERAGE_FEE)]
         /\ positions' = Append(positions,
                [agent_id |-> agent_id, direction |-> direction,
                 target_price |-> target_price, bet_amount |-> bet_amount,
                 potential_return |-> potential_return(bet_amount),
                 settlement_time |-> now + hours, status |-> "active",
                 settled_price |-> None, payout |-> None])
         /\ result' = Res("create_leverage_bet", TRUE, Len(positions) + 1, agent_id)
         /\ UNCHANGED <<reputation, is_eliminated, total_trades, frameLeverage, taskVars>>
    ELSE /\ result' = Res("create_leverage_bet", FALSE, 0, 0)
         /\ UNCHANGED <<agentVars, leverageVars, frameLeverage, taskVars>>

\* won: the price against the target, by direction
leverage_won(direction, target_price, current_price) ==
    IF direction = "above" THEN current_price > target_price
    ELSE current_price < target_price

settle_leverage_position(position_id, current_price) ==
    IF position_id \in PositionIds /\ positions[position_id].status = "active"
    THEN LET position == positions[position_id]
             won == leverage_won(position.direction, position.target_price,
                                 current_price)
             payout == IF won THEN position.potential_return ELSE 0
         IN  /\ positions' = [positions EXCEPT
                    ![position_id].status = IF won THEN "won" ELSE "lost",
                    ![position_id].payout = payout,
                    ![position_id].settled_price = current_price]
             /\ afc_balance' = [afc_balance EXCEPT ![position.agent_id] = @ + payout]
             /\ result' = Res("settle_leverage_position", TRUE, position_id,
                              position.agent_id)
             /\ UNCHANGED <<reputation, is_eliminated, total_trades, frameLeverage,
                            taskVars>>
    ELSE /\ result' = Res("settle_leverage_position", FALSE, position_id, 0)
         /\ UNCHANGED <<agentVars, leverageVars, frameLeverage, taskVars>>

\* ───────────────────────── GameOrchestrator: the leverage settler ───────

\* the ACTIVE positions whose settlement time has arrived
matured_positions ==
    {p \in active_positions : positions[p].settlement_time <= now}

\* payout = round(bet_amount * LEVERAGE_MULTIPLIER, 4) of a winning position
settler_payout(p, current_price) ==
    IF leverage_won(positions[p].direction, positions[p].target_price, current_price)
    THEN RoundDiv(positions[p].bet_amount * LEVERAGE_MULTIPLIER, 100)
    ELSE 0

\* one pass of the loop: every matured position against the price read at its start
_leverage_settler(current_price) ==
    /\ positions' = [p \in PositionIds |->
            IF p \in matured_positions
            THEN [positions[p] EXCEPT
                    !.status = IF leverage_won(positions[p].direction,
                                               positions[p].target_price,
                                               current_price)
                               THEN "won" ELSE "lost",
                    !.payout = settler_payout(p, current_price),
                    !.settled_price = current_price]
            ELSE positions[p]]
    /\ afc_balance' = [a \in Agents |->
            afc_balance[a] + SumOf([p \in PositionIds |->
                                        settler_payout(p, current_price)],
                {p \in matured_positions : positions[p].agent_id = a})]
    /\ result' = Res("_leverage_settler", TRUE, Cardinality(matured_positions), 0)
    /\ UNCHANGED <<reputation, is_eliminated, total_trades, frameLeverage, taskVars>>

\* ───────────────────────── the margin call ──────────────────────────────

\* variant that liquidates every row, whatever its status
liquidated_rows_all ==
    [p \in PositionIds |-> [positions[p] EXCEPT !.status = "liquidated", !.payout = 0]]

\* every ACTIVE row set to LIQUIDATED with payout 0
liquidated_rows ==
    [p \in PositionIds |->
        IF p \in active_positions
        THEN [positions[p] EXCEPT !.status = "liquidated", !.payout = 0]
        ELSE positions[p]]

\* TradingEngine.liquidate_all_positions
liquidate_all_positions ==
    /\ positions' = liquidated_rows
    /\ result' = Res("liquidate_all_positions", TRUE, Cardinality(active_positions), 0)
    /\ UNCHANGED <<agentVars, frameLeverage, taskVars>>

\* EventsEngine.execute_margin_call
execute_margin_call ==
    IF active_positions = {}
    THEN /\ result' = Res("execute_margin_call", FALSE, 0, 0)
         /\ UNCHANGED <<agentVars, leverageVars, frameLeverage, taskVars>>
    ELSE /\ positions' = liquidated_rows
         /\ result' = Res("execute_margin_call", TRUE, Cardinality(active_positions), 0)
         /\ UNCHANGED <<agentVars, frameLeverage, taskVars>>

\* ───────────────────────── specification of the leverage positions ──────

BetOffers == {<<1, "below", 1000, 100, 1>>, <<2, "above", 1000, 100, 2>>}
SettlerBets == {<<1, "above", 1000, 400, 1>>, <<2, "below", 1000, 100, 2>>}
Prices == {950, 1000, 1050}
SettlePrices == {950, 1050}

\* the calls of the trading engine and the margin call, at one instant
NextLeverage ==
    \/ update_game_hour(LEVERAGE_UNLOCK_HOUR)
    \/ \E b \in BetOffers : create_leverage_bet(b[1], b[2], b[3], b[4], b[5])
    \/ \E p \in 1..MaxPositions, price \in SettlePrices : settle_leverage_position(p, price)
    \/ liquidate_all_positions
    \/ execute_margin_call

SpecLeverage == Init /\ [][NextLeverage]_vars

\* the settler loop next to the clock, on a table of at most MaxSettlerPositions rows
NextSettler ==
    \/ Tick
    \/ update_game_hour(LEVERAGE_UNLOCK_HOUR)
    \/ \E b \in SettlerBets :
          /\ Len(positions) < MaxSettlerPositions
          /\ create_leverage_bet(b[1], b[2], b[3], b[4], b[5])
    \/ \E p \in 1..MaxSettlerPositions, price \in Prices :
          settle_leverage_position(p, price)
    \/ \E price \in Prices : _leverage_settler(price)

SpecSettler == Init /\ [][NextSettler]_vars

\* ───────────────────────── the covert market and the game hour ──────────

\* /api/game/start after the game loop was stopped or has ended: the new loop
\* counts the hours from 0 again and its first tick writes hour 1, on the
\* database the earlier loop has left
api_start_game ==
    /\ current_hour' = 1
    /\ result' = Res("api_start_game", TRUE, 1, 0)
    /\ UNCHANGED <<agentVars, is_trading_frozen, tradeVars, leverageVars, darkVars,
                   allianceVars, socialVars, eventVars, runVars, now, taskVars>>

NextGate ==
    \/ update_game_hour(DARK_MARKET_UNLOCK_HOUR)
    \/ api_start_game
    \/ \E b \in BlackmailOffers : create_blackmail(b[1], b[2], b[3], b[4])
    \/ \E id \in BlackmailIds, a \in Agents : pay_blackmail(id, a)
    \/ \E id \in BlackmailIds, a \in Agents : ignore_blackmail(id, a)
    \/ \E id \in BlackmailIds, a \in Agents : expose_blackmail(id, a)
    \/ \E o \in HitOffers : create_hit_contract(o[1], o[2], o[3])
    \/ \E id \in HitIds, a \in Agents : claim_hit_contract(id, a)
    \/ \E id \in HitIds : complete_hit_contract(id)
    \/ \E id \in HitIds, a \in Agents : cancel_hit_contract(id, a)

SpecGate == Init /\ [][NextGate]_vars

\* the target answers from its decision loop, one call after the other, while
\* the sweep of the game loop expires contracts
NextBlackmailRace ==
    \/ Tick
    \/ update_game_hour(DARK_MARKET_UNLOCK_HOUR)
    \/ \E b \in BlackmailOffers : create_blackmail(b[1], b[2], b[3], b[4])
    \/ \E t \in Tasks \ {SweepTask}, id \in BlackmailIds, a \in Agents :
          target_idle /\ pay_blackmail_read_contract(t, id, a)
    \/ \E t \in Tasks : pay_blackmail_read_target(t)
    \/ \E t \in Tasks : pay_blackmail_read_blackmailer(t)
    \/ \E t \in Tasks : pay_blackmail_commit(t)
    \/ \E id \in BlackmailIds, a \in Agents : target_idle /\ ignore_blackmail(id, a)
    \/ \E id \in BlackmailIds, a \in Agents : target_idle /\ expose_blackmail(id, a)
    \/ resolve_expired_blackmail

SpecBlackmailRace == Init /\ [][NextBlackmailRace]_vars

\* ───────────────────────── MarketEngine ──────────────────────────────────
\* Prices are cents, changes are hundredths of a percent.

\* what the calls on the market never write
frameMarket == <<agentVars, current_hour, tradeVars, leverageVars, darkVars, allianceVars,
                 socialVars, eventVars, system_events, orchestratorVars, now>>

\* round(n / d, 2) on a float: the nearest cent, and either neighbour when n / d
\* lies halfway between two cents
RoundCents(n, d) ==
    LET q == n \div d
        r == n % d
    IN IF 2 * r < d THEN {q} ELSE IF 2 * r > d THEN {q + 1} ELSE {q, q + 1}

Sign(x) == IF x < 0 THEN -1 ELSE 1

\* (buy - sell) / total * 0.05, to the hundredth of a percent
market_pressure(buy, sell) ==
    IF buy + sell > 0
    THEN Sign(buy - sell) * RoundDiv(Abs(buy - sell) * MAX_PRICE_CHANGE_PERCENT * 100, buy + sell)
    ELSE 0

\* variant without the cap
clamped_change_uncapped(raw_change) == raw_change

\* max(-cap, min(cap, raw_change))
clamped_change(raw_change) ==
    Max(-MAX_PRICE_CHANGE_PERCENT * 100, Min(MAX_PRICE_CHANGE_PERCENT * 100, raw_change))

\* round(max(price * (1 + change), 0.01), 2)
new_prices(old_price, change) ==
    RoundCents(Max(old_price * (10000 + change), 10000), 10000)

record_trade(amount, is_buy) ==
    /\ _buy_volume + _sell_volume < MaxVolume
    /\ IF amount <= 0 \/ _frozen
       THEN /\ result' = Res("record_trade", FALSE, 0, 0)
            /\ UNCHANGED <<_buy_volume, _sell_volume>>
       ELSE /\ _buy_volume' = IF is_buy THEN _buy_volume + amount ELSE _buy_volume
            /\ _sell_volume' = IF is_buy THEN _sell_volume ELSE _sell_volume + amount
            /\ result' = Res("record_trade", TRUE, amount, 0)
    /\ UNCHANGED <<_price, _frozen, num_prices, is_trading_frozen, frameMarket, taskVars>>

\* update_price up to the await of the INSERT: the new price is computed from
\* the price and the volumes of this moment
update_price_compute(t, volatility) ==
    /\ pc[t] = "idle"
    /\ num_prices < MaxPrices
    /\ IF _frozen
       THEN /\ result' = Res("update_price", FALSE, _price, 0)
            /\ UNCHANGED taskVars
       ELSE /\ \E new_price \in new_prices(_price,
                     clamped_change(market_pressure(_buy_volume, _sell_volume) + volatility)) :
                  Goto(t, "update_price_persist",
                       [NoLoc EXCEPT !.op = "update_price", !.bal = _price,
                                     !.price = new_price])
            /\ UNCHANGED result
    /\ UNCHANGED <<marketVars, is_trading_frozen, frameMarket>>

\* the INSERT has returned: the price is replaced and the volumes are reset
update_price_persist(t) ==
    /\ pc[t] = "update_price_persist"
    /\ num_prices' = num_prices + 1
    /\ _price' = loc[t].price
    /\ _buy_volume' = 0
    /\ _sell_volume' = 0
    /\ result' = Res("update_price", TRUE, loc[t].price, 0)
    /\ Done(t)
    /\ UNCHANGED <<_frozen, is_trading_frozen, frameMarket>>

apply_event_impact(percent_change) ==
    /\ num_prices < MaxPrices
    /\ \E new_price \in new_prices(_price, clamped_change(percent_change)) :
          /\ _price' = new_price
          /\ result' = Res("apply_event_impact", TRUE, new_price, 0)
    /\ num_prices' = num_prices + 1
    /\ UNCHANGED <<_buy_volume, _sell_volume, _frozen, is_trading_frozen, frameMarket, taskVars>>

freeze_trading ==
    /\ _frozen' = TRUE
    /\ is_trading_frozen' = TRUE
    /\ result' = Res("freeze_trading", TRUE, 0, 0)
    /\ UNCHANGED <<_price, _buy_volume, _sell_volume, num_prices, frameMarket, taskVars>>

unfreeze_trading ==
    /\ _frozen' = FALSE
    /\ _buy_volume' = 0
    /\ _sell_volume' = 0
    /\ is_trading_frozen' = FALSE
    /\ result' = Res("unfreeze_trading", TRUE, 0, 0)
    /\ UNCHANGED <<_price, num_prices, frameMarket, taskVars>>

\* the prices initialise_from_db can resume from, the amounts of a trade, the
\* draws of random.uniform(-0.03, 0.03) and the shocks the callers ask for
StartPrices == {1, 10, 110, STARTING_PRICE}
TradeAmounts == {0, 100}
Volatilities == {-300, 0, 300}
Shocks == {-5500, -500, 3300}

\* the price loop is the task that ticks
PriceTask == 2

NextMarket ==
    \/ \E amount \in TradeAmounts, is_buy \in BOOLEAN : record_trade(amount, is_buy)
    \/ \E volatility \in Volatilities : update_price_compute(PriceTask, volatility)
    \/ update_price_persist(PriceTask)
    \/ \E percent_change \in Shocks : apply_event_impact(percent_change)
    \/ freeze_trading
    \/ unfreeze_trading

SpecMarket == (\E start_price \in StartPrices : InitAt(start_price)) /\ [][NextMarket]_vars

\* ───────────────────────── an elimination checkpoint ────────────────────
\* The calls made one after the other: agents tip, a reputation is changed,
\* the game loop calls check_elimination.

TippingPairs == {<<1, 2>>, <<3, 4>>, <<5, 4>>, <<2, 3>>}
CheckpointReputationChanges == {<<1, 10>>, <<2, -10>>}

NextCheckpoint ==
    \/ \E p \in TippingPairs, amt \in TipAmounts : send_tip(p[1], p[2], amt)
    \/ \E c \in CheckpointReputationChanges : modify_reputation(c[1], c[2])
    \/ \E hour \in CheckedHours : check_elimination(hour)

SpecCheckpoint == Init /\ [][NextCheckpoint]_vars

\* ───────────────────────── a tribunal window ────────────────────────────
\* Votes are cast in the window of the tribunal hour, the checkpoint of that
\* hour removes an agent, and the window is resolved.

TribunalHour == 12
TribunalBallots == {<<2, 1>>, <<3, 1>>, <<1, 2>>}

\* _delayed_tribunal_resolve runs once for a tribunal event; here a
\* reputation is 0 only after the resolution
tribunal_unresolved == \A a \in Agents : reputation[a] > 0

NextTribunal ==
    \/ \E b \in TribunalBallots : cast_tribunal_vote(b[1], b[2], TribunalHour)
    \/ check_elimination(TribunalHour)
    \/ tribunal_unresolved /\ resolve_tribunal(TribunalHour)

SpecTribunal == Init /\ [][NextTribunal]_vars

\* ───────────────────────── interleaved checkpoint calls ──────────────────
\* check_elimination is called by the game loop and by the event checker,
\* each in its own task and session; one action per awaited statement, the
\* GameState query taken together with the commit.

elimination_processed(hour) == \E e \in eliminations : e.hour = hour

\* the test of the hour and the query for a row of that hour
check_elimination_read_existing(t, hour) ==
    /\ pc[t] = "idle"
    /\ Cardinality(eliminations) < MaxEliminations
    /\ IF hour \notin ELIMINATION_HOURS \/ elimination_processed(hour)
       THEN /\ result' = Res("check_elimination", FALSE, 0, 0)
            /\ UNCHANGED taskVars
       ELSE /\ Goto(t, "check_elimination_read_victim",
                    [NoLoc EXCEPT !.op = "check_elimination", !.id = hour])
            /\ UNCHANGED result
    /\ UNCHANGED <<agentVars, eventVars, frameEvents>>

\* the victim row is loaded with the balance it has now
check_elimination_read_victim(t) ==
    /\ pc[t] = "check_elimination_read_victim"
    /\ IF elimination_victims = {}
       THEN /\ result' = Res("check_elimination", FALSE, 0, 0)
            /\ Done(t)
       ELSE /\ \E victim \in elimination_victims :
                  Goto(t, "check_elimination_read_top3",
                       [loc[t] EXCEPT !.agent = victim, !.bal = afc_balance[victim]])
            /\ UNCHANGED result
    /\ UNCHANGED <<agentVars, eventVars, frameEvents>>

\* the rows of the top three are loaded; pending[a] is the balance loaded for
\* agent a, -1 for an agent that was not loaded
check_elimination_read_top3(t) ==
    /\ pc[t] = "check_elimination_read_top3"
    /\ \E top3 \in elimination_top3(loc[t].agent) :
          Goto(t, "check_elimination_commit",
               [loc[t] EXCEPT !.pending =
                   [a \in Agents |-> IF a \in top3 THEN afc_balance[a] ELSE -1]])
    /\ UNCHANGED <<agentVars, eventVars, frameEvents, result>>

\* the flush writes the attributes whose value differs from the loaded one
check_elimination_commit(t) ==
    /\ pc[t] = "check_elimination_commit"
    /\ LET victim == loc[t].agent
           top3 == {a \in Agents : loc[t].pending[a] >= 0}
           redistribution == elimination_redistribution(loc[t].bal, top3)
       IN /\ afc_balance' = [a \in Agents |->
                 IF a = victim
                 THEN (IF loc[t].bal # 0 THEN 0 ELSE afc_balance[a])
                 ELSE IF a \in DOMAIN redistribution /\ redistribution[a] # 0
                      THEN loc[t].pending[a] + redistribution[a]
                 ELSE afc_balance[a]]
          /\ is_eliminated' = [is_eliminated EXCEPT ![victim] = TRUE]
          /\ eliminations' = eliminations \cup
                 {[agent_id |-> victim, hour |-> loc[t].id, final_afc |-> loc[t].bal,
                   redistribution |-> redistribution]}
          /\ agents_remaining' = agents_remaining - 1
          /\ result' = Res("check_elimination", TRUE, loc[t].id, victim)
    /\ Done(t)
    /\ UNCHANGED <<reputation, total_trades, blackmails, tribunal_votes, reputation_log,
                   frameCheckpoint>>

NextCheckpointRace ==
    \/ \E p \in TippingPairs, amt \in TipAmounts : send_tip(p[1], p[2], amt)
    \/ \E t \in Tasks, hour \in CheckedHours : check_elimination_read_existing(t, hour)
    \/ \E t \in Tasks : check_elimination_read_victim(t)
    \/ \E t \in Tasks : check_elimination_read_top3(t)
    \/ \E t \in Tasks : check_elimination_commit(t)

SpecCheckpointRace == Init /\ [][NextCheckpointRace]_vars

\* ───────────────────────── the calls that move funds between holders ─────
\* Tips, blackmail payments and the alliance calls that pay in or pay out:
\* one tip, one blackmail contract and one alliance.

TransferTips == {<<4, 5>>}
TransferBlackmails == {<<4, 5, 300, 1>>}
LeaveCalls == {<<1, 1>>, <<1, 2>>, <<1, 3>>}
TransferEjectCalls == {<<1, 1, <<2, 3>>>>, <<1, 3, <<1>>>>}
TransferContributions == {<<1, 1, 602>>, <<1, 2, 552>>, <<1, 3, 502>>}

NextTransfers ==
    \/ update_game_hour(DARK_MARKET_UNLOCK_HOUR)
    \/ \E p \in TransferTips, amt \in TipAmounts :
          num_tips = 0 /\ send_tip(p[1], p[2], amt)
    \/ \E b \in TransferBlackmails :
          blackmails = <<>> /\ create_blackmail(b[1], b[2], b[3], b[4])
    \/ \E id \in BlackmailIds, a \in {5} : pay_blackmail(id, a)
    \/ \E f \in AllianceFounders : alliances = <<>> /\ create_alliance(f)
    \/ \E j \in JoinCalls : j[1] \in AllianceIds /\ join_alliance(j[1], j[2])
    \/ \E c \in TransferContributions :
          c[1] \in AllianceIds /\ contribute_to_treasury(c[1], c[2], c[3])
    \/ \E c \in LeaveCalls : c[1] \in AllianceIds /\ leave_alliance(c[1], c[2])
    \/ \E id \in AllianceIds, f \in AllianceFounders : dissolve_alliance(id, f)
    \/ \E c \in TransferEjectCalls :
          c[1] \in AllianceIds /\ emergency_vote_eject(c[1], c[2], c[3])

SpecTransfers == Init /\ [][NextTransfers]_vars

\* ───────────────────────── admin adjustments ─────────────────────────────

\* TradingEngine.modify_balance, called by the admin action of the main module
modify_balance(agent_id, amount) ==
    /\ IF amount # 0 /\ ~(afc_balance[agent_id] + amount < 0)
       THEN /\ afc_balance' = [afc_balance EXCEPT ![agent_id] = @ + amount]
            /\ result' = Res("modify_balance", TRUE, amount, agent_id)
       ELSE /\ result' = Res("modify_balance", FALSE, amount, agent_id)
            /\ UNCHANGED afc_balance
    /\ UNCHANGED <<reputation, is_eliminated, total_trades, eventVars, frameEvents, taskVars>>

\* the route /admin/modify-balance: the sum is written as it is
admin_modify_balance(agent_id, amount) ==
    /\ afc_balance' = [afc_balance EXCEPT ![agent_id] = @ + amount]
    /\ result' = Res("admin_modify_balance", TRUE, amount, agent_id)
    /\ UNCHANGED <<reputation, is_eliminated, total_trades, eventVars, frameEvents, taskVars>>

MaxBalance == 2000
AdminBalanceChanges == {<<1, -1200>>, <<1, 500>>, <<2, -1000>>, <<2, 0>>}
AdminReputationChanges == {<<1, 60>>, <<2, -60>>}

NextAdmin ==
    \/ \E c \in AdminBalanceChanges :
          Abs(afc_balance[c[1]] + c[2]) <= MaxBalance /\ modify_balance(c[1], c[2])
    \/ \E c \in AdminBalanceChanges :
          Abs(afc_balance[c[1]] + c[2]) <= MaxBalance /\ admin_modify_balance(c[1], c[2])
    \/ \E c \in AdminReputationChanges : modify_reputation(c[1], c[2])
    \/ \E p \in TippingPairs, amt \in TipAmounts : send_tip(p[1], p[2], amt)

SpecAdmin == Init /\ [][NextAdmin]_vars

\* ───────────────────────── GameOrchestrator ──────────────────────────────
\* The event checker is the task SweepTask; the other task carries the calls
\* that come from outside the loops: the admin trigger and stop_game.

LoopNames == {"price_update_loop", "decision_loop", "event_checker",
              "leverage_settler", "defection_checker", "snapshot_taker"}

EventIds == 1..Len(system_events)

\* what the orchestrator and the calls on system events never write
frameOrchestrator == <<agentVars, tradeVars, leverageVars, darkVars, allianceVars,
                       socialVars, eventVars, now>>

\* initialize_events: one row for each scheduled event
initialize_events ==
    [e \in 1..Len(SCHEDULED_EVENTS) |->
        [event_type |-> SCHEDULED_EVENTS[e][1], trigger_hour |-> SCHEDULED_EVENTS[e][2],
         is_triggered |-> FALSE]]

\* a run is started once; a second run on the same database is not modelled
start_game ==
    /\ _running \/ phase = "pre_game"
    /\ IF _running
       THEN /\ result' = Res("start_game", FALSE, 0, 0)
            /\ UNCHANGED <<current_hour, system_events, orchestratorVars>>
       ELSE /\ is_active' = TRUE
            /\ phase' = "accumulation"
            /\ current_hour' = 0
            /\ system_events' = initialize_events
            /\ _running' = TRUE
            /\ _tasks' = LoopNames
            /\ live_tasks' = live_tasks \cup LoopNames
            /\ result' = Res("start_game", TRUE, 0, 0)
            /\ UNCHANGED clock_expired
    /\ UNCHANGED <<is_trading_frozen, marketVars, frameOrchestrator, taskVars>>

\* datetime.now() reaches _game_ends_at
clock_expires ==
    /\ phase # "pre_game"
    /\ ~clock_expired
    /\ clock_expired' = TRUE
    /\ UNCHANGED <<gameVars, system_events, marketVars, _running, _tasks, live_tasks,
                   is_active, phase, frameOrchestrator, taskVars, result>>

\* get_pending_events: the rows not triggered whose hour has come, by hour
get_pending_events(hour) ==
    SelectSeq([e \in EventIds |-> e],
              LAMBDA e : system_events[e].trigger_hour <= hour /\ ~system_events[e].is_triggered)

\* one pass of the event checker begins: the hour is stored and the pending
\* events are read
_event_checker_pending(t, hour) ==
    /\ pc[t] = "idle"
    /\ _running
    /\ "event_checker" \in live_tasks
    /\ hour >= current_hour
    /\ current_hour' = hour
    /\ Goto(t, "_event_checker_loop",
            [NoLoc EXCEPT !.op = "_event_checker", !.pending = get_pending_events(hour)])
    /\ UNCHANGED <<is_trading_frozen, system_events, marketVars, orchestratorVars,
                   frameOrchestrator, result>>

\* the for loop over the pending events, then the test of the clock
_event_checker_loop(t) ==
    /\ pc[t] = "_event_checker_loop"
    /\ IF loc[t].pending = <<>>
       THEN Goto(t, "_event_checker_clock", loc[t])
       ELSE Goto(t, "trigger_event_read",
                 [loc[t] EXCEPT !.id = Head(loc[t].pending), !.pending = Tail(@)])
    /\ UNCHANGED <<gameVars, system_events, marketVars, orchestratorVars,
                   frameOrchestrator, result>>

\* the admin route calls trigger_event with the id it was given
trigger_event_call(t, event_id) ==
    /\ pc[t] = "idle"
    /\ Goto(t, "trigger_event_read", [NoLoc EXCEPT !.op = "trigger_event", !.id = event_id])
    /\ UNCHANGED <<gameVars, system_events, marketVars, orchestratorVars,
                   frameOrchestrator, result>>

\* where a call of trigger_event returns to
trigger_event_returns(t, ok) ==
    IF loc[t].op = "_event_checker"
    THEN Goto(t, IF ok THEN "_apply_event_effects" ELSE "_event_checker_loop", loc[t])
    ELSE Done(t)

event_is_triggered(event_id) == system_events[event_id].is_triggered

trigger_event_read(t) ==
    /\ pc[t] = "trigger_event_read"
    /\ IF loc[t].id \notin EventIds \/ event_is_triggered(loc[t].id)
       THEN /\ trigger_event_returns(t, FALSE)
            /\ result' = Res("trigger_event", FALSE, loc[t].id, 0)
       ELSE /\ Goto(t, "trigger_event_commit", loc[t])
            /\ UNCHANGED result
    /\ UNCHANGED <<gameVars, system_events, marketVars, orchestratorVars, frameOrchestrator>>

trigger_event_commit(t) ==
    /\ pc[t] = "trigger_event_commit"
    /\ system_events' = [system_events EXCEPT ![loc[t].id].is_triggered = TRUE]
    /\ result' = Res("trigger_event", TRUE, loc[t].id, 0)
    /\ trigger_event_returns(t, TRUE)
    /\ UNCHANGED <<gameVars, marketVars, orchestratorVars, frameOrchestrator>>

\* the effects of the three scheduled events of this model
_apply_event_effects(t) ==
    /\ pc[t] = "_apply_event_effects"
    /\ LET event_type == system_events[loc[t].id].event_type IN
       \/ /\ event_type \in {"whale_alert", "flash_crash"}
          /\ \E new_price \in new_prices(_price,
                 clamped_change(IF event_type = "whale_alert" THEN 3300 ELSE -5500)) :
                _price' = new_price
          /\ num_prices' = num_prices + 1
          /\ UNCHANGED <<is_trading_frozen, _frozen, live_tasks>>
       \/ /\ event_type = "security_breach"
          /\ is_trading_frozen' = TRUE
          /\ _frozen' = TRUE
          /\ live_tasks' = live_tasks \cup {"unfreeze_after_breach"}
          /\ UNCHANGED <<_price, num_prices>>
    /\ result' = Res("_apply_event_effects", TRUE, loc[t].id, 0)
    /\ Goto(t, "_event_checker_loop", loc[t])
    /\ UNCHANGED <<current_hour, system_events, _buy_volume, _sell_volume, _running, _tasks,
                   is_active, phase, clock_expired, frameOrchestrator>>

\* the end of a pass: the checker calls stop_game when the clock has run out,
\* which cancels the tasks of _tasks, the checker itself among them
_event_checker_clock(t) ==
    /\ pc[t] = "_event_checker_clock"
    /\ IF clock_expired
       THEN /\ _running' = FALSE
            /\ live_tasks' = live_tasks \ (_tasks \ {"event_checker"})
            /\ Goto(t, "stop_game_gather", loc[t])
       ELSE /\ Done(t)
            /\ UNCHANGED <<_running, live_tasks>>
    /\ UNCHANGED <<gameVars, system_events, marketVars, _tasks, is_active, phase,
                   clock_expired, frameOrchestrator, result>>

\* stop_game called from outside the loops: every task of _tasks is cancelled
\* and ends at the await it is suspended at
stop_game(t) ==
    /\ pc[t] = "idle"
    /\ IF ~_running
       THEN /\ result' = Res("stop_game", FALSE, 0, 0)
            /\ UNCHANGED <<_running, live_tasks, taskVars>>
       ELSE /\ _running' = FALSE
            /\ live_tasks' = live_tasks \ _tasks
            /\ pc' = [pc EXCEPT ![t] = "stop_game_gather", ![SweepTask] = "idle"]
            /\ loc' = [loc EXCEPT ![t] = [NoLoc EXCEPT !.op = "stop_game"],
                                  ![SweepTask] = NoLoc]
            /\ UNCHANGED result
    /\ UNCHANGED <<gameVars, system_events, marketVars, _tasks, is_active, phase,
                   clock_expired, frameOrchestrator>>

\* after the gather: the list is cleared and GameState is marked.  In the
\* checker the gather waits for the checker itself, which has been cancelled:
\* the call either stays suspended or ends with CancelledError, and the rest
\* of stop_game does not run
stop_game_gather(t) ==
    /\ pc[t] = "stop_game_gather"
    /\ IF loc[t].op = "_event_checker"
       THEN /\ \/ /\ pc' = [pc EXCEPT ![t] = "stop_game_suspended"]
                  /\ UNCHANGED <<loc, live_tasks>>
               \/ /\ Done(t)
                  /\ live_tasks' = live_tasks \ {"event_checker"}
            /\ result' = Res("_event_checker", FALSE, 0, 0)
            /\ UNCHANGED <<_tasks, is_active, phase>>
       ELSE /\ _tasks' = {}
            /\ is_active' = FALSE
            /\ phase' = "post_game"
            /\ result' = Res("stop_game", TRUE, 0, 0)
            /\ Done(t)
            /\ UNCHANGED live_tasks
    /\ UNCHANGED <<gameVars, system_events, marketVars, _running, clock_expired,
                   frameOrchestrator>>

\* the sleep of the task created at the breach ends
_delayed_unfreeze ==
    /\ "unfreeze_after_breach" \in live_tasks
    /\ is_trading_frozen' = FALSE
    /\ _frozen' = FALSE
    /\ _buy_volume' = 0
    /\ _sell_volume' = 0
    /\ live_tasks' = live_tasks \ {"unfreeze_after_breach"}
    /\ result' = Res("_delayed_unfreeze", TRUE, 0, 0)
    /\ UNCHANGED <<current_hour, system_events, _price, num_prices, _running, _tasks,
                   is_active, phase, clock_expired, frameOrchestrator, taskVars>>

EventHours == {3, 9}
AdminEvents == {1, 3}

NextOrchestrator ==
    \/ start_game
    \/ clock_expires
    \/ \E hour \in EventHours : _event_checker_pending(SweepTask, hour)
    \/ _event_checker_loop(SweepTask)
    \/ \E t \in Tasks \ {SweepTask}, event_id \in AdminEvents : trigger_event_call(t, event_id)
    \/ \E t \in Tasks : trigger_event_read(t)
    \/ \E t \in Tasks : trigger_event_commit(t)
    \/ _apply_event_effects(SweepTask)
    \/ _event_checker_clock(SweepTask)
    \/ \E t \in Tasks \ {SweepTask} : stop_game(t)
    \/ \E t \in Tasks : stop_game_gather(t)
    \/ _delayed_unfreeze

SpecOrchestrator == Init /\ [][NextOrchestrator]_vars

\* the loops keep running, a call that has begun goes on, and a sleep ends
FairOrchestrator ==
    /\ SpecOrchestrator
    /\ WF_vars(\E hour \in EventHours : _event_checker_pending(SweepTask, hour))
    /\ WF_vars(_event_checker_loop(SweepTask))
    /\ WF_vars(\E t \in Tasks : trigger_event_read(t))
    /\ WF_vars(\E t \in Tasks : trigger_event_commit(t))
    /\ WF_vars(_apply_event_effects(SweepTask))
    /\ WF_vars(_event_checker_clock(SweepTask))
    /\ WF_vars(\E t \in Tasks : stop_game_gather(t))
    /\ WF_vars(_delayed_unfreeze)

\* ───────────────────────── the settler loop, one await at a time ───────
\* The loop runs in its own task with one session for a pass.  loc.selected
\* holds the rows the SELECT returned, loc.id the last of them the for loop
\* has dealt with, loc.pending[a] the balance the session loaded for agent a
\* (-1 for an agent it has not loaded).

\* the SELECT of the ACTIVE positions whose settlement time has arrived
_leverage_settler_select(t, current_price) ==
    /\ pc[t] = "idle"
    /\ _running
    /\ "leverage_settler" \in live_tasks
    /\ IF matured_positions = {}
       THEN /\ result' = Res("_leverage_settler", TRUE, 0, 0)
            /\ UNCHANGED taskVars
       ELSE /\ Goto(t, "_leverage_settler_get",
                    [NoLoc EXCEPT !.op = "_leverage_settler", !.price = current_price,
                                  !.selected = matured_positions,
                                  !.pending = [a \in Agents |-> -1]])
            /\ UNCHANGED result
    /\ UNCHANGED <<agentVars, leverageVars, frameLeverage>>

\* the rows of the pass the for loop has dealt with
settled_rows(l) == {p \in l.selected : p <= l.id}

\* one turn of the for loop: session.get of the agent, which loads the row
\* unless the session holds it already, the assignments, and the broadcast
_leverage_settler_get(t) ==
    /\ pc[t] = "_leverage_settler_get"
    /\ LET todo == loc[t].selected \ settled_rows(loc[t])
           p == CHOOSE q \in todo : \A r \in todo : q <= r
           a == positions[p].agent_id
           loaded == IF loc[t].pending[a] = -1 THEN afc_balance[a] ELSE loc[t].pending[a]
           l == [loc[t] EXCEPT !.id = p, !.pending[a] = loaded]
       IN Goto(t, IF todo = {p} THEN "_leverage_settler_commit" ELSE "_leverage_settler_get", l)
    /\ UNCHANGED <<agentVars, leverageVars, frameLeverage, result>>

\* the payouts of the pass to one agent
settler_credit(l, a) ==
    SumOf([p \in PositionIds |->
              IF leverage_won(positions[p].direction, positions[p].target_price, l.price)
              THEN RoundDiv(positions[p].bet_amount * LEVERAGE_MULTIPLIER, 100)
              ELSE 0],
          {p \in settled_rows(l) : positions[p].agent_id = a})

\* session.commit: the flush writes status, payout and settled_price of each
\* row of the pass, and the balance of each agent it has credited, as the
\* value loaded plus the payouts
_leverage_settler_commit(t) ==
    /\ pc[t] = "_leverage_settler_commit"
    /\ positions' = [p \in PositionIds |->
            IF p \in settled_rows(loc[t])
            THEN LET won == leverage_won(positions[p].direction,
                                         positions[p].target_price, loc[t].price)
                 IN [positions[p] EXCEPT
                        !.status = IF won THEN "won" ELSE "lost",
                        !.payout = IF won
                                   THEN RoundDiv(positions[p].bet_amount
                                                 * LEVERAGE_MULTIPLIER, 100)
                                   ELSE 0,
                        !.settled_price = loc[t].price]
            ELSE positions[p]]
    /\ afc_balance' = [a \in Agents |->
            IF settler_credit(loc[t], a) # 0
            THEN loc[t].pending[a] + settler_credit(loc[t], a)
            ELSE afc_balance[a]]
    /\ result' = Res("_leverage_settler", TRUE, Cardinality(settled_rows(loc[t])), 0)
    /\ Done(t)
    /\ UNCHANGED <<reputation, is_eliminated, total_trades, frameLeverage>>

\* ───────────────────────── DarkMarketEngine: intel ──────────────────────

INTEL_TIER_COSTS == <<100, 150, 250, 400>>

\* the checks and the first transaction: the cost is taken from the buyer
purchase_intel_debit(t, buyer_id, target_id, tier) ==
    /\ pc[t] = "idle"
    /\ IF /\ _check_dark_market_unlocked
          /\ tier \in DOMAIN INTEL_TIER_COSTS
          /\ buyer_id # target_id
          /\ ~is_eliminated[buyer_id]
          /\ afc_balance[buyer_id] >= INTEL_TIER_COSTS[tier]
       THEN /\ afc_balance' = [afc_balance EXCEPT ![buyer_id] = @ - INTEL_TIER_COSTS[tier]]
            /\ Goto(t, "purchase_intel_assemble",
                    [NoLoc EXCEPT !.op = "purchase_intel", !.agent = buyer_id,
                                  !.id = target_id, !.share = tier])
            /\ UNCHANGED result
       ELSE /\ result' = Res("purchase_intel", FALSE, 0, 0)
            /\ UNCHANGED <<afc_balance, taskVars>>
    /\ UNCHANGED <<reputation, is_eliminated, total_trades, darkVars, frameDark>>

\* the queries that assemble the intel, outside the transaction
purchase_intel_assemble(t) ==
    /\ pc[t] = "purchase_intel_assemble"
    /\ Goto(t, "purchase_intel_log", loc[t])
    /\ UNCHANGED <<agentVars, darkVars, frameDark, result>>

\* the second transaction: the IntelPurchase row
purchase_intel_log(t) ==
    /\ pc[t] = "purchase_intel_log"
    /\ intel_purchases' = Append(intel_purchases,
           [buyer_id |-> loc[t].agent, target_id |-> loc[t].id, tier |-> loc[t].share,
            cost |-> INTEL_TIER_COSTS[loc[t].share]])
    /\ result' = Res("purchase_intel", TRUE, loc[t].id, loc[t].agent)
    /\ Done(t)
    /\ UNCHANGED <<agentVars, bounties, hits, gameVars, leverageVars, tradeVars,
                   allianceVars, socialVars, eventVars, now, runVars>>

\* ───────────────────────── a shutdown during the loops ──────────────────

ShutdownBets == {<<1, "above", 1000, 400, 1>>, <<2, "below", 1000, 100, 1>>}
IntelCalls == {<<3, 1, 1>>, <<3, 4, 2>>}
MaxIntelPurchases == 1

\* the decision loop and the settler by turns in the task SweepTask, stop_game
\* in another task
NextShutdown ==
    \/ start_game
    \/ Tick
    \/ update_game_hour(DARK_MARKET_UNLOCK_HOUR)
    \/ \E b \in ShutdownBets :
          /\ pc[SweepTask] = "idle"
          /\ Len(positions) < MaxSettlerPositions
          /\ create_leverage_bet(b[1], b[2], b[3], b[4], b[5])
    \/ \E price \in SettlePrices : _leverage_settler_select(SweepTask, price)
    \/ _leverage_settler_get(SweepTask)
    \/ _leverage_settler_commit(SweepTask)
    \/ \E c \in IntelCalls :
          /\ _running /\ "decision_loop" \in live_tasks
          /\ Len(intel_purchases) < MaxIntelPurchases
          /\ purchase_intel_debit(SweepTask, c[1], c[2], c[3])
    \/ purchase_intel_assemble(SweepTask)
    \/ purchase_intel_log(SweepTask)
    \/ \E t \in Tasks \ {SweepTask} : stop_game(t)
    \/ \E t \in Tasks \ {SweepTask} : stop_game_gather(t)

SpecShutdown == Init /\ [][NextShutdown]_vars

\* ───────────────────────── the sweeps and a persistence fault ───────────

\* a statement of execute_defection raises: its transaction is rolled back
\* and the exception leaves check_pending_defections, whose for loop has no
\* handler; the loop of the defection checker logs it and sleeps
execute_defection_raises(t) ==
    /\ pc[t] \in {"execute_defection_read_alliance", "execute_defection_read_member",
                  "execute_defection_read_betrayer", "execute_defection_commit"}
    /\ loc[t].op = "check_pending_defections"
    /\ result' = Res("_defection_checker", FALSE, loc[t].id, loc[t].agent)
    /\ Done(t)
    /\ UNCHANGED <<agentVars, allianceVars, frameAlliance, now>>

\* a statement of trigger_event raises inside the for loop of the event
\* checker: the handler of the loop body logs it and the loop goes on
trigger_event_raises(t) ==
    /\ pc[t] \in {"trigger_event_read", "trigger_event_commit"}
    /\ loc[t].op = "_event_checker"
    /\ result' = Res("trigger_event", FALSE, loc[t].id, 0)
    /\ Goto(t, "_event_checker_loop", loc[t])
    /\ UNCHANGED <<gameVars, system_events, marketVars, orchestratorVars, frameOrchestrator>>

SweepDefectors == {2, 3}
DefectionTask == SweepTask + 1

\* the event checker in one task and the defection checker in another, with
\* statements that may raise
NextSweep ==
    \/ Tick
    \/ start_game
    \/ \E f \in AllianceFounders : create_alliance(f)
    \/ \E j \in JoinCalls : j[1] \in AllianceIds /\ join_alliance(j[1], j[2])
    \/ \E id \in AllianceIds, a \in SweepDefectors :
          initiate_defection_ok(id, a) /\ initiate_defection(id, a)
    \/ check_pending_defections_scan(DefectionTask)
    \/ check_pending_defections_loop(DefectionTask)
    \/ execute_defection_read_alliance(DefectionTask)
    \/ execute_defection_read_member(DefectionTask)
    \/ execute_defection_read_betrayer(DefectionTask)
    \/ execute_defection_commit(DefectionTask)
    \/ execute_defection_raises(DefectionTask)
    \/ \E hour \in EventHours : _event_checker_pending(SweepTask, hour)
    \/ _event_checker_loop(SweepTask)
    \/ trigger_event_read(SweepTask)
    \/ trigger_event_commit(SweepTask)
    \/ trigger_event_raises(SweepTask)
    \/ _apply_event_effects(SweepTask)
    \/ _event_checker_clock(SweepTask)

SpecSweep == Init /\ [][NextSweep]_vars

\* ───────────────────────── the settler loop among other settlements ────

\* the settler in its task, with a settlement by the trading engine and a
\* margin call in between its awaits
NextSettlerRace ==
    \/ start_game
    \/ Tick
    \/ update_game_hour(LEVERAGE_UNLOCK_HOUR)
    \/ \E b \in ShutdownBets :
          /\ pc[SweepTask] = "idle"
          /\ Len(positions) < MaxSettlerPositions
          /\ create_leverage_bet(b[1], b[2], b[3], b[4], b[5])
    \/ \E price \in SettlePrices : _leverage_settler_select(SweepTask, price)
    \/ _leverage_settler_get(SweepTask)
    \/ _leverage_settler_commit(SweepTask)
    \/ \E p \in 1..MaxSettlerPositions, price \in SettlePrices :
          settle_leverage_position(p, price)
    \/ execute_margin_call

SpecSettlerRace == Init /\ [][NextSettlerRace]_vars

\* ───────────────────────── the routes of the admin router that freeze ───

\* POST /admin/freeze-trading: EventsEngine.freeze_trading sets the flag of
\* GameState; the market engine is not called
admin_freeze_trading ==
    /\ is_trading_frozen' = TRUE
    /\ result' = Res("admin_freeze_trading", TRUE, 0, 0)
    /\ UNCHANGED <<current_hour, marketVars, system_events, orchestratorVars,
                   frameOrchestrator, taskVars>>

\* POST /admin/unfreeze-trading: EventsEngine.unfreeze_trading
admin_unfreeze_trading ==
    /\ is_trading_frozen' = FALSE
    /\ result' = Res("admin_unfreeze_trading", TRUE, 0, 0)
    /\ UNCHANGED <<current_hour, marketVars, system_events, orchestratorVars,
                   frameOrchestrator, taskVars>>

\* the hour of the security breach in the schedule
BreachHour == SCHEDULED_EVENTS[3][2]

\* the breach of the schedule, the delayed unfreeze and the admin calls of
\* both sets of routes
NextFreeze ==
    \/ start_game
    \/ _event_checker_pending(SweepTask, BreachHour)
    \/ _event_checker_loop(SweepTask)
    \/ trigger_event_read(SweepTask)
    \/ trigger_event_commit(SweepTask)
    \/ _apply_event_effects(SweepTask)
    \/ _event_checker_clock(SweepTask)
    \/ _delayed_unfreeze
    \/ freeze_trading
    \/ unfreeze_trading
    \/ admin_freeze_trading
    \/ admin_unfreeze_trading
    \/ \E o \in TradeOffers : create_trade_offer(o[1], o[2], o[3])

SpecFreeze == Init /\ [][NextFreeze]_vars

\* ───────────────────────── a tribunal window resolved again ─────────────

\* every task created for a tribunal event calls resolve_tribunal with the
\* hour it was created in; nothing records that a window has been resolved
AgainBallots == {<<2, 1>>, <<3, 1>>, <<4, 1>>}

NextTribunalAgain ==
    \/ \E b \in AgainBallots : cast_tribunal_vote(b[1], b[2], TribunalHour)
    \/ resolve_tribunal(TribunalHour)

SpecTribunalAgain == Init /\ [][NextTribunalAgain]_vars

\* ───────────────────────── forced eliminations ──────────────────────────

\* redistribution=None of a row written by the admin router, kept as a map
\* that no checkpoint writes
NoRedistribution == [a \in {0} |-> 0]

\* POST /admin/force-elimination of the admin router
force_elimination(agent_id) ==
    /\ Cardinality(eliminations) < MaxEliminations
    /\ IF is_eliminated[agent_id]
       THEN /\ result' = Res("force_elimination", FALSE, 0, agent_id)
            /\ UNCHANGED <<afc_balance, is_eliminated, eliminations, agents_remaining>>
       ELSE /\ is_eliminated' = [is_eliminated EXCEPT ![agent_id] = TRUE]
            /\ afc_balance' = [afc_balance EXCEPT ![agent_id] = 0]
            /\ eliminations' = eliminations \cup
                   {[agent_id |-> agent_id, hour |-> current_hour,
                     final_afc |-> afc_balance[agent_id],
                     redistribution |-> NoRedistribution]}
            /\ agents_remaining' = Max(0, agents_remaining - 1)
            /\ result' = Res("force_elimination", TRUE, current_hour, agent_id)
    /\ UNCHANGED <<reputation, total_trades, blackmails, tribunal_votes, reputation_log,
                   frameCheckpoint, taskVars>>

\* the action force_eliminate of /api/admin/manipulate: the agent row alone
api_force_eliminate(agent_id) ==
    /\ is_eliminated' = [is_eliminated EXCEPT ![agent_id] = TRUE]
    /\ afc_balance' = [afc_balance EXCEPT ![agent_id] = 0]
    /\ result' = Res("api_force_eliminate", TRUE, 0, agent_id)
    /\ UNCHANGED <<reputation, total_trades, eventVars, frameCheckpoint, taskVars>>

ForcedAgents == {1, 2}

\* the checkpoint of the hour the game is in, next to the admin calls
NextForce ==
    \/ update_game_hour(LEVERAGE_UNLOCK_HOUR)
    \/ \E p \in TippingPairs, amt \in TipAmounts : send_tip(p[1], p[2], amt)
    \/ check_elimination(current_hour)
    \/ \E a \in ForcedAgents : force_elimination(a)
    \/ \E a \in ForcedAgents : ~is_eliminated[a] /\ api_force_eliminate(a)

SpecForce == Init /\ [][NextForce]_vars

\* ───────────────────────── properties ──────────────────────────────────

\* C2: every accept_trade that succeeds on a pending trade with amount a and
\* fee f lowers the sender's balance by exactly a+f, raises the receiver's by
\* exactly a, raises both trade counters by 1, and lowers the sum of the two
\* balances by exactly f.
C2_AcceptTransfers ==
    [][(result'.op = "accept_trade" /\ result'.ok) =>
        LET tr == trades[result'.id]
            s == tr.sender_id
            r == tr.receiver_id
        IN /\ tr.status = "pending"
           /\ afc_balance'[s] = afc_balance[s] - (tr.afc_amount + tr.fee)
           /\ afc_balance'[r] = afc_balance[r] + tr.afc_amount
           /\ total_trades'[s] = total_trades[s] + 1
           /\ total_trades'[r] = total_trades[r] + 1
           /\ afc_balance'[s] + afc_balance'[r]
                = afc_balance[s] + afc_balance[r] - tr.fee]_vars

\* the scenario of the specification: 10.0 / 10.0, amount 2, fee 0.03
C2_Witness ==
    /\ result.op = "accept_trade" /\ result.ok
    /\ trades[result.id].afc_amount = 200 /\ trades[result.id].fee = 3
    /\ afc_balance[trades[result.id].sender_id] = 797
    /\ afc_balance[trades[result.id].receiver_id] = 1200
    /\ total_trades[trades[result.id].sender_id] = 1
    /\ total_trades[trades[result.id].receiver_id] = 1

\* C10: an accept_trade on a pending trade whose sender holds less than
\* amount+fee at accept time returns a failure and leaves every balance,
\* every trade counter and the trade (still pending) unchanged.
C10_AcceptFailsCleanly ==
    [][(/\ result'.op = "accept_trade"
        /\ trades[result'.id].status = "pending"
        /\ afc_balance[trades[result'.id].sender_id]
             < trades[result'.id].afc_amount + trades[result'.id].fee)
       => (/\ ~result'.ok
           /\ UNCHANGED <<afc_balance, total_trades, trades>>)]_vars

\* the sender offered 9.60 + fee, then tipped 0.50 away, then the accept failed
C10_Witness ==
    /\ result.op = "accept_trade" /\ ~result.ok
    /\ trades[result.id].status = "pending"
    /\ afc_balance[trades[result.id].sender_id]
         < trades[result.id].afc_amount + trades[result.id].fee

\* C9: once a trade has left pending, a call of accept_trade, reject_trade or
\* execute_scam that finishes on it fails and changes nothing: the status
\* changes at most once and the amount is transferred at most once, also
\* when the calls interleave.
C9_StatusChangesOnce ==
    [][\A t \in Tasks :
        (/\ pc[t] # "idle" /\ pc'[t] = "idle"
         /\ trades[loc[t].id].status # "pending")
        => (/\ ~result'.ok
            /\ UNCHANGED <<afc_balance, total_trades, reputation, trades>>)]_vars

\* C5: the reward of a bounty or hit contract is released at most once: a
\* claim_bounty, complete_hit_contract or cancel_hit_contract that finishes on
\* a contract whose reward has already been released (bounty completed, hit
\* contract completed or cancelled) credits nobody, whatever the interleaving.
C5_ReleasedAtMostOnce ==
    [][\A t \in Tasks :
        (/\ pc[t] # "idle" /\ pc'[t] = "idle"
         /\ \/ /\ loc[t].op = "claim_bounty"
               /\ bounties[loc[t].id].status = "completed"
            \/ /\ loc[t].op \in {"complete_hit_contract", "cancel_hit_contract"}
               /\ hits[loc[t].id].status \in {"completed", "cancelled"})
        => afc_balance' = afc_balance]_vars


\* C6: after every successful contribution, join or leave on an alliance that
\* still has an active member, the share_percent of its active members sum to
\* 100 % (10000 hundredths), within one rounding unit per member.
C6_SharesSumTo100 ==
    [][(result'.op \in {"contribute_to_treasury", "join_alliance", "leave_alliance"}
        /\ result'.ok)
       => LET rows == members'[result'.id]
              active == {a \in Agents : rows[a].is_active}
          IN active # {} =>
               Abs(SumOf([a \in Agents |-> rows[a].share_percent], active) - 10000)
                 <= Cardinality(active)]_vars

\* what a successful execute_defection credits: the defector T x 80 % within
\* rounding, each other member its part of the remainder in proportion to its
\* share (equal parts when all shares are zero), the parts summing to the
\* remainder within one rounding unit per other member
DefectionPaysOut(needs_others) ==
    (result'.op = "execute_defection" /\ result'.ok) =>
    LET id == result'.id
        b == result'.agent
        T == alliances[id].treasury
        rows == members[id]
        others == {a \in Agents : rows[a].is_active} \ {b}
        credit == [a \in Agents |-> afc_balance'[a] - afc_balance[a]]
        remainder == T - credit[b]
        total_share == SumOf([a \in Agents |-> rows[a].share_percent], others)
    IN (needs_others => others # {}) =>
       /\ Abs(100 * credit[b] - BETRAYAL_STEAL_PERCENT * T) <= 50
       /\ Abs(SumOf(credit, others) - remainder) <= Cardinality(others)
       /\ \A o \in others :
             IF total_share > 0
             THEN Abs(credit[o] * total_share - remainder * rows[o].share_percent)
                    <= total_share
             ELSE Abs(credit[o] * Cardinality(others) - remainder) <= Cardinality(others)

C8_ExecutedAtMostOnce ==
    [][\A t \in Tasks :
        (pc[t] = "execute_defection_commit" /\ pc'[t] # "execute_defection_commit")
        => alliances[loc[t].id].status = "active"]_vars

\* C1: after any sequence of engine operations every actor's balance is >= 0.
C1_BalanceNeverNegative == \A a \in Agents : afc_balance[a] >= 0

\* C3: once an actor's elimination flag is set, no later operation succeeds
\* with that actor as a party (offering or accepting a trade, tipping, creating
\* or defecting from an alliance, creating or paying blackmail).
C3_EliminatedNeverParty ==
    [][LET r == result'
           parties ==
               CASE r.op \in {"create_trade_offer", "accept_trade"} ->
                        {trades'[r.id].sender_id, trades'[r.id].receiver_id}
                 [] r.op \in {"create_blackmail", "pay_blackmail"} ->
                        {blackmails'[r.id].blackmailer_id, blackmails'[r.id].target_id}
                 [] r.op = "send_tip" -> {r.id, r.agent}
                 [] r.op \in {"create_alliance", "initiate_defection"} -> {r.agent}
                 [] OTHER -> {}
       IN r.ok => \A a \in parties : ~is_eliminated[a]]_vars

\* C4: after any sequence of operations that change reputation (tip, scam,
\* up/downvote, defection, blackmail exposure, hit-contract completion,
\* tribunal, vote-manipulation detection, admin modification), every actor's
\* reputation is an integer within [0,100].
C4_ReputationInRange ==
    \A a \in Agents : reputation[a] \in Int /\ REP_MIN <= reputation[a] /\ reputation[a] <= REP_MAX

\* after an admin change of +60 cut at 100, a tip's bonus is cut at 100
C4_Witness ==
    /\ result = Res("send_tip", TRUE, 2, 1)
    /\ reputation[2] = REP_MAX
    /\ reputation[1] = STARTING_REPUTATION + REP_TIP
    /\ Len(reputation_log) > 0
    /\ reputation_log[1] = [agent_id |-> 2, change |-> 60, new_value |-> REP_MAX]

\* what create_trade_offer, reject_trade and execute_scam do in a step; with
\* cut_at_min the scam penalty is cut at REP_MIN, without it the reputation
\* falls by the whole penalty
OffersMoveNoFunds(cut_at_min) ==
    LET r == result' IN
    /\ r.op \in {"create_trade_offer", "reject_trade", "execute_scam"}
          => afc_balance' = afc_balance
    /\ (r.op = "create_trade_offer" /\ r.ok)
          => LET trade == trades'[r.id] IN
             /\ ~is_eliminated[trade.sender_id]
             /\ ~is_eliminated[trade.receiver_id]
             /\ afc_balance[trade.sender_id] >= trade.afc_amount + trade.fee
    /\ (r.op = "execute_scam" /\ r.ok)
          => LET sender == trades[r.id].sender_id
                 penalised == reputation[sender] + REP_SCAM_CONFIRMED
             IN /\ trades' = [trades EXCEPT ![r.id].status = "scam"]
                /\ reputation' = [reputation EXCEPT ![sender] =
                       IF cut_at_min THEN Max(REP_MIN, penalised) ELSE penalised]
                /\ UNCHANGED <<is_eliminated, total_trades, frameTrading, num_tips>>

\* C11 (as stated): create_trade_offer, reject_trade and execute_scam never
\* change a balance; create_trade_offer succeeds only if both parties are
\* active and the sender covers amount + fee; execute_scam changes only the
\* trade status and lowers the sender's reputation by the scam penalty.
C11_FundsMoveOnlyOnAccept == [][OffersMoveNoFunds(FALSE)]_vars

\* C11 (amended): the same, with the sender's reputation lowered by the scam
\* penalty but not below REP_MIN.
C11_FundsMoveOnlyOnAcceptCut == [][OffersMoveNoFunds(TRUE)]_vars

\* a scam on a sender whose reputation an admin change had lowered to 0
C11_Witness ==
    /\ result = Res("execute_scam", TRUE, 1, 1)
    /\ trades[1].status = "scam"
    /\ reputation[1] = REP_MIN
    /\ Len(reputation_log) > 0 /\ reputation_log[1].agent_id = 1

\* the ACTIVE positions of an agent after the step
active_count_after(agent_id) ==
    Cardinality({p \in 1..Len(positions') :
        positions'[p].agent_id = agent_id /\ positions'[p].status = "active"})

\* C12: every agent owns at most MAX_LEVERAGE_POSITIONS (3) positions with
\* status active; create_leverage_bet succeeds only for an agent who has fewer,
\* and a create_leverage_bet that fails debits nothing and adds no position.
C12_AtMostThreeActive ==
    [][LET r == result' IN
       /\ \A a \in Agents : active_count_after(a) <= MAX_LEVERAGE_POSITIONS
       /\ (r.op = "create_leverage_bet" /\ r.ok)
             => active_count(r.agent) < MAX_LEVERAGE_POSITIONS
       /\ (r.op = "create_leverage_bet" /\ ~r.ok)
             => afc_balance' = afc_balance /\ positions' = positions]_vars

\* agent 1 has three active positions and the funds for a fourth, agent 2 is
\* under the limit, and a create_leverage_bet has just failed
C12_Witness ==
    /\ result = Res("create_leverage_bet", FALSE, 0, 0)
    /\ current_hour >= LEVERAGE_UNLOCK_HOUR
    /\ active_count(1) = MAX_LEVERAGE_POSITIONS
    /\ active_count(2) < MAX_LEVERAGE_POSITIONS
    /\ afc_balance[1] = STARTING_AFC - 3 * (100 + LEVERAGE_FEE)
    /\ afc_balance[2] >= 100 + LEVERAGE_FEE

\* the positions that leave status active in the step
settled_in_step ==
    {p \in PositionIds : positions[p].status = "active"
                         /\ positions'[p].status # "active"}

\* the position wins at the price it was settled at
settled_as_win(position) ==
    \/ position.direction = "above" /\ position.settled_price > position.target_price
    \/ position.direction = "below" /\ position.settled_price < position.target_price

\* C13: create_leverage_bet debits stake + LEVERAGE_FEE from the owner; a
\* settlement (settle_leverage_position or a pass of the settler) marks each
\* position it settles won exactly when the price is above the target
\* (direction above) or below it (direction below), and credits the owner
\* stake x 1.75 for each won position and nothing for the others.
C13_StakeAndPayout ==
    [][LET r == result' IN
       /\ (r.op = "create_leverage_bet" /\ r.ok /\ now' = now)
             => LET position == positions'[r.id] IN
                /\ position.agent_id = r.agent
                /\ afc_balance' = [afc_balance EXCEPT ![r.agent] =
                       @ - (position.bet_amount + LEVERAGE_FEE)]
       /\ (r.op \in {"settle_leverage_position", "_leverage_settler"} /\ now' = now)
             => /\ \A p \in settled_in_step :
                      LET position == positions'[p] IN
                      IF settled_as_win(position)
                      THEN /\ position.status = "won"
                           /\ 100 * position.payout =
                                  position.bet_amount * LEVERAGE_MULTIPLIER
                      ELSE /\ position.status = "lost"
                           /\ position.payout = 0
                /\ \A a \in Agents :
                      afc_balance'[a] = afc_balance[a] +
                          SumOf([p \in PositionIds |-> positions'[p].payout],
                                {p \in settled_in_step : positions[p].agent_id = a})]_vars

\* the settler has paid 7.00 on a stake of 4.00 above 1000 at price 1050, and
\* nothing on a position below 1000 settled at 1000
C13_Witness ==
    /\ result.op = "_leverage_settler"
    /\ Len(positions) = 2
    /\ positions[1].agent_id = 1 /\ positions[1].bet_amount = 400
    /\ positions[1].direction = "above" /\ positions[1].settled_price = 1050
    /\ positions[1].status = "won" /\ positions[1].payout = 700
    /\ afc_balance[1] = STARTING_AFC - (400 + LEVERAGE_FEE) + 700
    /\ positions[2].agent_id = 2 /\ positions[2].direction = "below"
    /\ positions[2].settled_price = 1000 /\ positions[2].status = "lost"
    /\ afc_balance[2] = STARTING_AFC - (100 + LEVERAGE_FEE)

\* C14: a margin call (execute_margin_call or liquidate_all_positions) sets
\* every active position to liquidated with payout 0, leaves the positions that
\* are won, lost or liquidated as they are, and changes no balance.
C14_MarginCallLiquidates ==
    [][result'.op \in {"execute_margin_call", "liquidate_all_positions"}
       => /\ Len(positions') = Len(positions)
          /\ \A p \in PositionIds :
                IF positions[p].status = "active"
                THEN positions'[p] = [positions[p] EXCEPT !.status = "liquidated",
                                                         !.payout = 0]
                ELSE positions'[p] = positions[p]
          /\ afc_balance' = afc_balance]_vars

\* a margin call has liquidated positions of both directions next to a won
\* and a lost one
C14_Witness ==
    /\ result.op = "execute_margin_call" /\ result.ok
    /\ \E p, q \in PositionIds :
          /\ positions[p].status = "liquidated" /\ positions[p].direction = "above"
          /\ positions[q].status = "liquidated" /\ positions[q].direction = "below"
          /\ positions[p].settled_price = None /\ positions[q].payout = 0
    /\ \E p, q \in PositionIds :
          /\ positions[p].status = "won" /\ positions[p].payout = 175
          /\ positions[q].status = "lost" /\ positions[q].payout = 0

\* C15: create_bounty debits the full reward from the poster; a claim_bounty
\* that succeeds does so on a bounty that is open at that moment and for a
\* claimer other than the poster, credits exactly the reward to the claimer and
\* marks the bounty completed, so that no bounty pays twice, also when two
\* claims interleave.
C15_BountyPaidOnce ==
    [][/\ (result'.op = "create_bounty" /\ result'.ok /\ Len(bounties') > Len(bounties))
           => LET bounty == bounties'[result'.id] IN
              afc_balance' = [afc_balance EXCEPT ![bounty.poster_id] =
                                  @ - bounty.reward_afc]
       /\ \A t \in Tasks :
           (pc[t] = "claim_bounty_commit" /\ pc'[t] = "idle" /\ result'.ok)
           => LET bounty == bounties[loc[t].id] IN
              /\ bounty.status = "open"
              /\ bounty.poster_id # loc[t].agent
              /\ afc_balance' = [afc_balance EXCEPT ![loc[t].agent] =
                                     @ + bounty.reward_afc]
              /\ bounties'[loc[t].id].status = "completed"]_vars

\* C16: execute_defection succeeds only for an active member whose defection
\* was initiated at least BETRAYAL_COUNTDOWN_HOURS (2) before, and changes
\* nothing when it fails; initiate_defection stamps the membership with the
\* time of the call and cancel_defection clears the stamp, so a countdown that
\* was cancelled and initiated again runs from the new initiation.
C16_CountdownGuardsDefection ==
    [][LET r == result' IN
       now' = now =>
       /\ (r.op = "execute_defection" /\ r.ok)
             => LET member == members[r.id][r.agent] IN
                /\ member.is_active
                /\ member.defection_initiated_at # None
                /\ now - member.defection_initiated_at >= BETRAYAL_COUNTDOWN_HOURS
       /\ (r.op = "execute_defection" /\ ~r.ok)
             => UNCHANGED <<agentVars, allianceVars>>
       /\ (r.op = "initiate_defection" /\ r.ok)
             => members'[r.id][r.agent].defection_initiated_at = now
       /\ (r.op = "cancel_defection" /\ r.ok)
             => members'[r.id][r.agent].defection_initiated_at = None]_vars

\* the three members have each had a defection pending for one hour, and an
\* execute_defection has just failed
C16_Witness ==
    /\ result = Res("execute_defection", FALSE, 1, 0)
    /\ now = 2
    /\ alliances[1].status = "active"
    /\ \A a \in {1, 2, 3} :
          /\ members[1][a].is_active
          /\ members[1][a].defection_initiated_at = 1

\* C17: a successful execute_defection leaves the alliance betrayed, with the
\* defector as betrayed_by and treasury 0, no membership of it active or with
\* a pending defection, and the defector's reputation lowered by REP_BETRAYAL;
\* an alliance that is dissolved or betrayed keeps that status, its treasury
\* and its memberships in every later step.
C17_BetrayedIsFinal ==
    [][/\ \A t \in Tasks :
           (pc[t] = "execute_defection_commit" /\ pc'[t] # pc[t])
           => LET id == loc[t].id
                  agent == loc[t].agent
              IN /\ alliances'[id].status = "betrayed"
                 /\ alliances'[id].betrayed_by = agent
                 /\ alliances'[id].treasury = 0
                 /\ \A a \in Agents :
                       /\ ~members'[id][a].is_active
                       /\ members'[id][a].defection_initiated_at = None
                 /\ reputation'[agent] = reputation[agent] + REP_BETRAYAL
       /\ \A id \in AllianceIds :
           alliances[id].status \in {"dissolved", "betrayed"}
           => /\ alliances'[id].status = alliances[id].status
              /\ alliances'[id].treasury = alliances[id].treasury
              /\ members'[id] = members[id]]_vars

\* the distinct eligible members among the voters
eject_distinct_voters(rows, target_id, voter_ids) ==
    {voter_ids[i] : i \in 1..Len(voter_ids)} \cap eject_eligible(rows, target_id)

\* C18: emergency_vote_eject removes the target only when more than half of
\* the active members other than the target voted for it, each such member
\* counting once and the target and non-members not at all; the ejected member
\* is credited min(own contribution, treasury), the treasury falls by that
\* amount, and the shares of the remaining members are recomputed.
C18_EjectNeedsMajority ==
    [][\A c \in EjectCalls :
        (/\ c[1] \in AllianceIds
         /\ emergency_vote_eject(c[1], c[2], c[3])
         /\ result'.ok)
        => LET rows == members[c[1]]
               eligible == eject_eligible(rows, c[2])
               refund == IF rows[c[2]].contribution < alliances[c[1]].treasury
                         THEN rows[c[2]].contribution ELSE alliances[c[1]].treasury
           IN /\ rows[c[2]].is_active
              /\ 2 * Cardinality(eject_distinct_voters(rows, c[2], c[3]))
                    > Cardinality(eligible)
              /\ ~members'[c[1]][c[2]].is_active
              /\ afc_balance' = [afc_balance EXCEPT ![c[2]] = @ + refund]
              /\ alliances'[c[1]].treasury = alliances[c[1]].treasury - refund
              /\ \A a \in eligible :
                    members'[c[1]][a].share_percent =
                        _recalculate_shares([rows EXCEPT ![c[2]].is_active = FALSE])[a]
                            .share_percent]_vars

CovertOps == {"create_blackmail", "pay_blackmail", "ignore_blackmail",
              "expose_blackmail", "create_hit_contract", "claim_hit_contract",
              "complete_hit_contract", "cancel_hit_contract"}

\* C19: while current_hour is below DARK_MARKET_UNLOCK_HOUR, every call of the
\* covert market (blackmail create, pay, ignore, expose; hit contract create,
\* claim, complete, cancel) returns a failure and changes no balance, no
\* reputation and no contract.
C19_GateClosesCovertMarket ==
    [][(current_hour < DARK_MARKET_UNLOCK_HOUR /\ result'.op \in CovertOps)
       => (~result'.ok /\ UNCHANGED <<afc_balance, reputation, blackmails, hits>>)]_vars

\* C20: a blackmail contract leaves status active at most once, to paid,
\* ignored, exposed or expired, and keeps that status: paying moves exactly
\* the demand from the target to the blackmailer, and a pay_blackmail that
\* fails changes nothing; ignoring changes no balance and no reputation;
\* exposing changes no balance and only the blackmailer's reputation; the
\* expiry sweep moves only active contracts past their deadline to expired and
\* changes no balance.
C20_BlackmailResolvedOnce ==
    [][/\ Len(blackmails') >= Len(blackmails)
       /\ \A c \in BlackmailIds :
           LET before == blackmails[c]
               after == blackmails'[c]
           IN /\ before.status # "active" => after = before
              /\ (before.status = "active" /\ after.status # "active") =>
                    /\ after = [before EXCEPT !.status = after.status]
                    /\ after.status \in {"paid", "ignored", "exposed", "expired"}
                    /\ after.status = "paid" =>
                          /\ afc_balance' = [afc_balance EXCEPT
                                 ![before.target_id] = @ - before.demand_afc,
                                 ![before.blackmailer_id] = @ + before.demand_afc]
                          /\ before.demand_afc <= afc_balance[before.target_id]
                          /\ reputation' = reputation
                    /\ after.status = "ignored" =>
                          afc_balance' = afc_balance /\ reputation' = reputation
                    /\ after.status = "exposed" =>
                          /\ afc_balance' = afc_balance
                          /\ \A a \in Agents \ {before.blackmailer_id} :
                                reputation'[a] = reputation[a]
                    /\ after.status = "expired" =>
                          /\ before.deadline <= now
                          /\ afc_balance' = afc_balance /\ reputation' = reputation
       /\ (result'.op = "pay_blackmail" /\ ~result'.ok /\ now' = now)
             => UNCHANGED <<afc_balance, reputation, blackmails>>
       /\ (result'.op = "resolve_expired_blackmail" /\ now' = now)
             => afc_balance' = afc_balance]_vars

\* C21: a hit contract's status moves only open -> claimed -> completed or
\* open/claimed -> cancelled, and completed and cancelled are final; a
\* claim_hit_contract that succeeds finds the contract open and its claimer is
\* neither poster nor target; a complete_hit_contract that succeeds finds the
\* contract claimed, credits the reward to the claimer and lowers the target's
\* reputation by the fixed penalty.
C21_HitContractLifecycle ==
    [][/\ Len(hits') >= Len(hits)
       /\ \A c \in HitIds :
            LET before == hits[c].status  after == hits'[c].status
            IN /\ before \in {"completed", "cancelled"} => hits'[c] = hits[c]
               /\ after # before =>
                     \/ before = "open" /\ after \in {"claimed", "cancelled"}
                     \/ before = "claimed" /\ after \in {"completed", "cancelled"}
       /\ (result'.op = "claim_hit_contract" /\ result'.ok /\ hits' # hits) =>
            LET contract == hits[result'.id] IN
            /\ contract.status = "open"
            /\ result'.agent \notin {contract.poster_id, contract.target_id}
            /\ hits' = [hits EXCEPT ![result'.id].status = "claimed",
                                    ![result'.id].claimer_id = result'.agent]
       /\ (result'.op = "complete_hit_contract" /\ result'.ok /\ hits' # hits) =>
            LET contract == hits[result'.id] IN
            /\ contract.status = "claimed"
            /\ afc_balance' = [afc_balance EXCEPT
                   ![contract.claimer_id] = @ + contract.reward_afc]
            /\ reputation' = [reputation EXCEPT
                   ![contract.target_id] = @ + REP_HIT_TARGET]]_vars

\* the price a tick or a shock started from and the price it left, with the
\* half cent the rounding to two decimals may add when with_rounding is set
PriceStep(old_price, new_price, with_rounding) ==
    /\ 20 * Abs(new_price - old_price) <= old_price + (IF with_rounding THEN 10 ELSE 0)
    /\ new_price > 0

PriceMoves(with_rounding) ==
    /\ \A t \in Tasks :
          (pc[t] = "update_price_persist" /\ pc'[t] = "idle")
             => PriceStep(loc[t].bal, _price', with_rounding)
    /\ (result'.op = "apply_event_impact" /\ num_prices' # num_prices)
          => PriceStep(_price, _price', with_rounding)
    /\ _price' > 0

\* C27 (as stated): the price a tick leaves is within 5 % of the price the
\* tick started from, the price a shock leaves is within 5 % of the price
\* before the shock whatever percent was asked for, and the price is never 0
\* or less; prices are cents after the rounding to two decimals.
C27_PriceWithinFivePercent == [][PriceMoves(FALSE)]_vars

\* C27 (amended): the same, where the rounding to two decimals may add up to
\* half a cent to the 5 %.
C27_PriceWithinFivePercentRounded == [][PriceMoves(TRUE)]_vars

\* a shock of +33 % on the starting price, capped at 5 % and rounded up
C27_Witness ==
    /\ result = Res("apply_event_impact", TRUE, 97878, 0)
    /\ _price = 97878
    /\ num_prices = 1

\* a tick finishes in this step: the skipped one or the one that stores a price
tick_skipped == result' = Res("update_price", FALSE, _price, 0) /\ result'.op # result.op

tick_stored == \E t \in Tasks : pc[t] = "update_price_persist" /\ pc'[t] = "idle"

\* C28: while the market is frozen a tick leaves the price and both volumes
\* unchanged and record_trade accumulates nothing; a tick on a market that is
\* not frozen resets both volumes to 0; unfreeze_trading clears the flag and
\* resets both volumes, and on a market that is not frozen it leaves the
\* market not frozen and the price unchanged.
C28_FrozenMarketStandsStill ==
    [][/\ (_frozen /\ (tick_skipped \/ tick_stored))
             => UNCHANGED <<_price, _buy_volume, _sell_volume>>
       /\ (_frozen /\ result'.op = "record_trade")
             => UNCHANGED <<_buy_volume, _sell_volume>>
       /\ (~_frozen /\ tick_stored) => (_buy_volume' = 0 /\ _sell_volume' = 0)
       /\ result'.op = "unfreeze_trading"
             => /\ ~_frozen' /\ ~is_trading_frozen'
                /\ _buy_volume' = 0 /\ _sell_volume' = 0
                /\ _price' = _price]_vars

\* C22: each SystemEvent is triggered at most once: a call of trigger_event
\* that returns success, from the event checker or from the admin route,
\* finds the event not yet triggered, so no second call for the same event
\* returns the payload and the effect is applied at most once.
trigger_event_succeeds ==
    /\ \E t \in Tasks : trigger_event_commit(t)
    /\ result'.op = "trigger_event"
    /\ result'.ok

C22_EventTriggeredAtMostOnce ==
    [][trigger_event_succeeds => ~system_events[result'.id].is_triggered]_vars

\* C29: after a security breach has frozen trading, trading is eventually
\* unfrozen, the market flag and the GameState flag both cleared: when the
\* breach duration elapses, or, when stop_game is called before that, as part
\* of the shutdown, so that a stop_game that completes leaves trading unfrozen.
breach_freeze ==
    _frozen /\ is_trading_frozen /\ "unfreeze_after_breach" \in live_tasks

trading_unfrozen == ~_frozen /\ ~is_trading_frozen

stop_game_completes ==
    /\ \E t \in Tasks : stop_game_gather(t)
    /\ result' = Res("stop_game", TRUE, 0, 0)

C29_BreachFreezeIsLifted ==
    /\ breach_freeze ~> trading_unfrozen
    /\ [][stop_game_completes => trading_unfrozen']_vars

\* C30: once the wall clock has reached the end of the run, the run eventually
\* is stopped: the six loops have ended, the task list is empty, the run is
\* not running and GameState is inactive with phase post_game; start_game
\* while running and stop_game while stopped change nothing.
stopped_state ==
    /\ ~_running
    /\ _tasks = {}
    /\ live_tasks \cap LoopNames = {}
    /\ ~is_active
    /\ phase = "post_game"

lifecycle_noop ==
    \/ _running /\ start_game
    \/ ~_running /\ \E t \in Tasks : stop_game(t)

C30_ClockDrivenTermination ==
    /\ (clock_expired /\ _running) ~> stopped_state
    /\ [][lifecycle_noop =>
            UNCHANGED <<gameVars, system_events, marketVars, orchestratorVars, taskVars>>]_vars

\* C23: at an elimination checkpoint the removed agent is an agent not yet
\* eliminated of minimum balance, and when several such agents share the
\* minimum balance it is one of lowest reputation among them.
elimination_happens ==
    /\ \E hour \in CheckedHours : check_elimination(hour)
    /\ result'.ok

C23_VictimIsPoorestThenLeastReputed ==
    [][elimination_happens =>
         LET victim == result'.agent IN
         /\ ~is_eliminated[victim]
         /\ \A a \in Agents : ~is_eliminated[a] =>
               /\ afc_balance[victim] <= afc_balance[a]
               /\ afc_balance[a] = afc_balance[victim] => reputation[victim] <= reputation[a]]_vars

\* the first half of C23 alone: the victim is of minimum balance
C23_VictimIsPoorest ==
    [][elimination_happens =>
         /\ ~is_eliminated[result'.agent]
         /\ \A a \in Agents : ~is_eliminated[a] =>
               afc_balance[result'.agent] <= afc_balance[a]]_vars

\* C24: at an elimination the balance the victim had is split evenly among
\* the three agents of highest balance among the others not eliminated, the
\* credits sum to that balance within rounding (half a unit for each credit),
\* the victim's balance becomes 0 and the recorded redistribution map lists
\* exactly those credits.
elimination_credit(a) == afc_balance'[a] - afc_balance[a]

elimination_is_split(victim, top3, redistribution) ==
    LET others == {a \in Agents : ~is_eliminated[a] /\ a # victim} IN
    /\ top3 \subseteq others
    /\ Cardinality(top3) = 3
    /\ \A a \in top3, b \in others \ top3 : afc_balance[a] >= afc_balance[b]
    /\ \A a, b \in top3 : elimination_credit(a) = elimination_credit(b)
    /\ \A a \in Agents \ (top3 \cup {victim}) : elimination_credit(a) = 0
    /\ 2 * Abs(SumOf([a \in Agents |-> elimination_credit(a)], top3) - afc_balance[victim])
          <= Cardinality(top3)
    /\ afc_balance'[victim] = 0
    /\ DOMAIN redistribution = (IF afc_balance[victim] > 0 THEN top3 ELSE {})
    /\ \A a \in top3 :
          elimination_credit(a) = (IF a \in DOMAIN redistribution THEN redistribution[a] ELSE 0)

C24_BalanceSplitAmongTopThree ==
    [][elimination_happens =>
         \E e \in eliminations' \ eliminations : \E top3 \in SUBSET Agents :
            /\ e.agent_id = result'.agent
            /\ e.final_afc = afc_balance[e.agent_id]
            /\ elimination_is_split(e.agent_id, top3, e.redistribution)]_vars

\* an elimination of an agent holding 950 units has credited 317 to each of
\* three agents and nothing to the fourth, who held less than one of them
C24_Witness ==
    /\ result = Res("check_elimination", TRUE, 6, 1)
    /\ afc_balance = <<0, 1367, 1317, 1317, 1000>>
    /\ \E e \in eliminations :
          /\ e.final_afc = 950
          /\ e.redistribution = [a \in {2, 3, 4} |-> 317]

\* C26: resolving a tribunal window penalises a target with the most votes of
\* the window: the target loses half their balance and their reputation
\* becomes 0, and the penalty is split evenly among the voters of the window
\* who are not eliminated, the credits summing to the penalty within rounding
\* (half a unit for each credit).  A target who voted is credited like the
\* other voters.
tribunal_resolves ==
    /\ resolve_tribunal(TribunalHour)
    /\ result'.ok

votes_against(target_id) ==
    Cardinality({v \in tribunal_votes : v.hour = TribunalHour /\ v.target_id = target_id})

active_voters ==
    {a \in Agents : /\ ~is_eliminated[a]
                    /\ \E v \in tribunal_votes : v.hour = TribunalHour /\ v.voter_id = a}

tribunal_credit(a, target_id, penalty) ==
    afc_balance'[a] - (IF a = target_id THEN afc_balance[a] - penalty ELSE afc_balance[a])

C26_TribunalPenaltySplitAmongActiveVoters ==
    [][tribunal_resolves =>
         LET target_id == result'.agent
             penalty == RoundDiv(afc_balance[target_id], 2)
             credits == [a \in Agents |-> tribunal_credit(a, target_id, penalty)]
         IN /\ votes_against(target_id) > 0
            /\ \A a \in Agents : votes_against(a) <= votes_against(target_id)
            /\ reputation'[target_id] = 0
            /\ \A a \in Agents \ active_voters : credits[a] = 0
            /\ \A a, b \in active_voters : credits[a] = credits[b]
            /\ active_voters # {} =>
                  2 * Abs(SumOf(credits, active_voters) - penalty)
                     <= Cardinality(active_voters)]_vars

\* C26 without the sum: target, penalty, zeroed reputation and equal credits
C26_TribunalPenalty ==
    [][tribunal_resolves =>
         LET target_id == result'.agent
             penalty == RoundDiv(afc_balance[target_id], 2)
             credits == [a \in Agents |-> tribunal_credit(a, target_id, penalty)]
         IN /\ votes_against(target_id) > 0
            /\ \A a \in Agents : votes_against(a) <= votes_against(target_id)
            /\ reputation'[target_id] = 0
            /\ \A a \in Agents \ active_voters : credits[a] = 0
            /\ \A a, b \in active_voters : credits[a] = credits[b]]_vars

\* C25: the checkpoint is idempotent: a call of check_elimination for an hour
\* that already has its elimination eliminates nobody and changes no balance,
\* also when two calls for the same hour interleave; a call for an hour that
\* is not a checkpoint never eliminates anyone.
check_elimination_step(t) ==
    \/ check_elimination_read_victim(t)
    \/ check_elimination_read_top3(t)
    \/ check_elimination_commit(t)

C25_CheckpointIsIdempotent ==
    /\ [][\A t \in Tasks, hour \in CheckedHours :
            (/\ check_elimination_read_existing(t, hour)
             /\ hour \notin ELIMINATION_HOURS \/ elimination_processed(hour))
            => /\ result' = Res("check_elimination", FALSE, 0, 0)
               /\ pc'[t] = "idle"
               /\ UNCHANGED <<agentVars, eliminations>>]_vars
    /\ [][\A t \in Tasks :
            (check_elimination_step(t) /\ elimination_processed(loc[t].id))
            => UNCHANGED <<agentVars, eliminations>>]_vars

\* C25 for calls that do not overlap
C25_SecondCallIsNoop ==
    [][\A hour \in CheckedHours :
         (/\ check_elimination(hour)
          /\ hour \notin ELIMINATION_HOURS \/ elimination_processed(hour))
         => /\ ~result'.ok
            /\ UNCHANGED <<agentVars, eliminations>>]_vars

\* C31: pure transfers conserve the funds: a tip, a blackmail payment,
\* leave_alliance, dissolve_alliance and emergency_vote_eject never change the
\* sum of all balances and all treasuries by more than rounding (half a unit
\* for each agent), and contribute_to_treasury lowers that sum by exactly the
\* alliance fee.
total_funds(balances, rows) ==
    SumOf(balances, Agents) + SumOf([id \in DOMAIN rows |-> rows[id].treasury], DOMAIN rows)

PureTransfers == {"send_tip", "pay_blackmail", "leave_alliance", "dissolve_alliance",
                  "emergency_vote_eject"}

funds_change == total_funds(afc_balance', alliances') - total_funds(afc_balance, alliances)

C31_TransfersConserveFunds ==
    [][/\ result'.op \in PureTransfers => 2 * Abs(funds_change) <= NumAgents
       /\ result'.op = "contribute_to_treasury" =>
             funds_change = (IF result'.ok THEN -ALLIANCE_FEE ELSE 0)]_vars

\* C31 with no tolerance at all
C31_TransfersConserveFundsExactly ==
    [][result'.op \in PureTransfers => funds_change = 0]_vars

\* three contributors with shares 36.36 %, 33.33 % and 30.30 % have been paid
\* out their contributions by the dissolution of the alliance
C31_Witness ==
    /\ result = Res("dissolve_alliance", TRUE, 1, 1)
    /\ alliances[1].treasury = 0
    /\ \A a \in {1, 2, 3} : afc_balance[a] = STARTING_AFC - ALLIANCE_FEE

\* C32: admin adjustments do not bypass the invariants of the engines: an
\* admin balance adjustment whose result would be negative is rejected and
\* leaves the balance unchanged, and an admin reputation adjustment leaves the
\* reputation within [0, 100].
AdminBalanceOps == {"modify_balance", "admin_modify_balance"}

C32_AdminAdjustmentsKeepInvariants ==
    [][/\ (/\ result'.op \in AdminBalanceOps
           /\ afc_balance[result'.agent] + result'.id < 0)
          => ~result'.ok /\ afc_balance' = afc_balance
       /\ result'.op = "modify_reputation" =>
             \A a \in Agents : reputation'[a] >= REP_MIN /\ reputation'[a] <= REP_MAX]_vars

\* C32 for the adjustments made through the engines
C32_EngineAdjustmentsKeepInvariants ==
    [][/\ (/\ result'.op = "modify_balance"
           /\ afc_balance[result'.agent] + result'.id < 0)
          => ~result'.ok /\ afc_balance' = afc_balance
       /\ result'.op = "modify_reputation" =>
             \A a \in Agents : reputation'[a] >= REP_MIN /\ reputation'[a] <= REP_MAX]_vars

\* C33: every change of an agent's reputation is written together with a row
\* of the change log: in every reachable state the reputation of an agent is
\* the new value of the latest log row of the agent, or the starting
\* reputation when the agent has no row.
log_rows(agent_id) == {i \in DOMAIN reputation_log : reputation_log[i].agent_id = agent_id}

logged_reputation(agent_id) ==
    IF log_rows(agent_id) = {} THEN STARTING_REPUTATION
    ELSE reputation_log[CHOOSE i \in log_rows(agent_id) :
                            \A j \in log_rows(agent_id) : j <= i].new_value

C33_ReputationMatchesLog ==
    \A a \in Agents : reputation[a] = logged_reputation(a)

\* C33 for the changes made by ReputationEngine.modify_reputation
C33_LoggedChangeMatches ==
    [][(\E c \in ReputationChanges : modify_reputation(c[1], c[2])) =>
         /\ Len(reputation_log') = Len(reputation_log) + 1
         /\ LET row == reputation_log'[Len(reputation_log')] IN
            /\ row.agent_id = result'.agent
            /\ row.new_value = reputation'[row.agent_id]
            /\ row.new_value = _clamp(reputation[row.agent_id] + row.change)]_vars

\* C34: operations on one actor that interleave at their awaited statements
\* lose no committed update: the commit of an elimination changes the balance
\* of every other actor, as it stands in the database at that moment, by
\* exactly the amount the elimination credits to that actor, so that a tip
\* committed after the elimination has loaded the actor is kept.
C34_NoLostUpdate ==
    [][\A t \in Tasks :
          check_elimination_commit(t) =>
             LET top3 == {a \in Agents : loc[t].pending[a] >= 0}
                 redistribution == elimination_redistribution(loc[t].bal, top3)
             IN \A a \in Agents \ {loc[t].agent} :
                   afc_balance'[a] - afc_balance[a] =
                      (IF a \in DOMAIN redistribution THEN redistribution[a] ELSE 0)]_vars

\* C35: a shutdown leaves no call half done: once stop_game has completed and
\* no call is in flight, everything taken from a balance has its counterpart
\* on record: the balances, the costs of the IntelPurchase rows, and the
\* stakes and fees of the positions less the payouts of the positions won,
\* add up to the funds the agents started with.
shutdown_complete ==
    /\ phase = "post_game"
    /\ \A t \in Tasks : pc[t] = "idle"

recorded_funds ==
    SumOf(afc_balance, Agents)
    + SumOf([i \in DOMAIN intel_purchases |-> intel_purchases[i].cost],
            DOMAIN intel_purchases)
    + SumOf([p \in PositionIds |->
                positions[p].bet_amount + LEVERAGE_FEE
                - (IF positions[p].status = "won" THEN positions[p].payout ELSE 0)],
            PositionIds)

settler_funds ==
    SumOf(afc_balance, Agents \ {c[1] : c \in IntelCalls})
    + SumOf([p \in PositionIds |->
                positions[p].bet_amount + LEVERAGE_FEE
                - (IF positions[p].status = "won" THEN positions[p].payout ELSE 0)],
            PositionIds)

C35_SettlerIsAllOrNothing ==
    shutdown_complete =>
       settler_funds = (NumAgents - Cardinality({c[1] : c \in IntelCalls})) * STARTING_AFC

\* C36: a failure on one item of a pass, a failed result or a raised
\* persistence fault, does not keep the remaining items of the pass from
\* being processed: a pass of the defection sweep or of the event check ends
\* only when none of the items it has read is left.
pass_ends(t) == pc[t] # "idle" /\ pc'[t] = "idle"

\* the items a pass has read and has still to process: of the defection
\* sweep the rows whose countdown had elapsed, of the event check every event
items_left(l) ==
    IF l.op = "check_pending_defections"
    THEN {i \in DOMAIN l.pending : ~(l.now - l.pending[i].at < BETRAYAL_COUNTDOWN_HOURS)}
    ELSE DOMAIN l.pending

C36_PassProcessesEveryItem ==
    [][\A t \in Tasks : pass_ends(t) => items_left(loc[t]) = {}]_vars

\* C36 for the event check, whose loop body handles what an item raises
C36_EventPassProcessesEveryItem ==
    [][(pass_ends(SweepTask) \/ trigger_event_raises(SweepTask)) =>
          IF pass_ends(SweepTask) THEN items_left(loc[SweepTask]) = {}
          ELSE /\ pc'[SweepTask] = "_event_checker_loop"
               /\ loc'[SweepTask].pending = loc[SweepTask].pending]_vars

\* C36 for the defection sweep when an item fails with a result
C36_FailedDefectionContinues ==
    [][(pass_ends(DefectionTask) /\ ~execute_defection_raises(DefectionTask))
          => items_left(loc[DefectionTask]) = {}]_vars

\* an item of the event check has raised while another item was left, and
\* that item has been triggered afterwards
C36_EventWitness ==
    /\ result = Res("trigger_event", TRUE, 2, 0)
    /\ ~system_events[1].is_triggered
    /\ system_events[2].is_triggered
    /\ loc[SweepTask].op = "_event_checker"

\* C37: a leverage position leaves the status active exactly once, however
\* the settler loop, settle_leverage_position and a margin call interleave:
\* a row that is no longer active keeps its status and its payout, and what
\* a step credits to an agent is the payout of the agent's positions that
\* the step has turned from active to won.
leaves_active_as_won(p) ==
    /\ positions[p].status = "active"
    /\ positions'[p].status = "won"

C37_PositionSettledOnce ==
    [][Len(positions') = Len(positions) =>
          /\ \A p \in PositionIds :
                positions[p].status # "active" =>
                   /\ positions'[p].status = positions[p].status
                   /\ positions'[p].payout = positions[p].payout
          /\ \A a \in Agents :
                afc_balance'[a] - afc_balance[a] =
                   SumOf([p \in PositionIds |-> positions'[p].payout],
                         {p \in PositionIds : /\ positions[p].agent_id = a
                                              /\ leaves_active_as_won(p)})]_vars

\* C38: the two freeze flags agree whenever no freeze or unfreeze call is in
\* progress: the flag of the market engine equals the flag of GameState
\* after any sequence of security breaches, delayed unfreezes and admin
\* freeze and unfreeze calls.
C38_FreezeFlagsAgree == _frozen = is_trading_frozen

\* C39: the tribunal penalty of one voting window is applied at most once.
\* Where the balances change only by resolutions of the one window of
\* TribunalHour, the window costs its target half of the balance once: no
\* agent ever holds less than half of the starting balance.
C39_TribunalPenaltyAppliedOnce ==
    \A a \in Agents : afc_balance[a] >= STARTING_AFC - RoundDiv(STARTING_AFC, 2)

\* C40: at a checkpoint hour with an agent that is not eliminated, the
\* scheduled elimination removes exactly one agent, whether or not an admin
\* has forced an elimination in the same hour; and the count agents_remaining
\* of GameState always equals the number of agents that are not eliminated.
remaining_agents == {a \in Agents : ~is_eliminated[a]}

scheduled_eliminations(hour) ==
    {e \in eliminations : e.hour = hour /\ e.redistribution # NoRedistribution}

C40_AgentsRemainingIsCount == agents_remaining = Cardinality(remaining_agents)

C40_CheckpointRemovesOne ==
    [][(/\ check_elimination(current_hour)
        /\ current_hour \in ELIMINATION_HOURS
        /\ scheduled_eliminations(current_hour) = {}
        /\ remaining_agents # {})
       => /\ result'.ok
          /\ Cardinality(remaining_agents') = Cardinality(remaining_agents) - 1]_vars

C40_CheckpointAndCount ==
    /\ []C40_AgentsRemainingIsCount
    /\ C40_CheckpointRemovesOne

====
